---- MODULE Spec2Model ----
(***************************************************************************)
(* Priz Finance Tracker: the goal-progress engine (useGoals hook) and the  *)
(* analytics aggregation functions.                                        *)
(*                                                                         *)
(* Monetary amounts are integer cents and are modelled as TLA+ integers    *)
(* (a JavaScript number holds every integer below 2^53 exactly).  Every    *)
(* other JavaScript number is modelled as an IEEE-754 binary64 value, and  *)
(* *, /, +, - on them round to nearest, ties to even, as the engine does.  *)
(***************************************************************************)
EXTENDS Integers, Sequences, FiniteSets, TLC

(***************************************************************************)
(* Natural numbers of arbitrary size: little-endian sequences of limbs in  *)
(* base 2^10 without leading zero limbs (<<>> is 0).  They carry the       *)
(* 53-bit significands of binary64 values and their exact products.        *)
(***************************************************************************)
LimbBits == 10

LimbBase == 2 ^ LimbBits

Pow2(k) == 2 ^ k

MaxOf(a, b) == IF a >= b THEN a ELSE b

RECURSIVE NatNorm(_)
NatNorm(a) ==
    IF a = <<>> THEN a
    ELSE IF a[Len(a)] = 0 THEN NatNorm(SubSeq(a, 1, Len(a) - 1)) ELSE a

RECURSIVE NatOfInt(_)
NatOfInt(n) ==
    IF n = 0 THEN <<>> ELSE <<n % LimbBase>> \o NatOfInt(n \div LimbBase)

RECURSIVE NatToInt(_)
NatToInt(a) ==
    IF a = <<>> THEN 0 ELSE a[1] + LimbBase * NatToInt(Tail(a))

Limb(a, i) == IF i >= 1 /\ i <= Len(a) THEN a[i] ELSE 0

\* Carry (or borrow) propagation over a sequence of integer coefficients.
RECURSIVE NatCarryFrom(_, _, _)
NatCarryFrom(c, i, carry) ==
    IF i > Len(c) THEN NatOfInt(carry)
    ELSE LET t == c[i] + carry
         IN  <<t % LimbBase>> \o NatCarryFrom(c, i + 1, t \div LimbBase)

NatCarry(c) == NatNorm(NatCarryFrom(c, 1, 0))

NatAdd(a, b) ==
    NatCarry([i \in 1..MaxOf(Len(a), Len(b)) |-> Limb(a, i) + Limb(b, i)])

\* a - b for a >= b
NatSub(a, b) ==
    NatCarry([i \in 1..MaxOf(Len(a), Len(b)) |-> Limb(a, i) - Limb(b, i)])

RECURSIVE NatConv(_, _, _, _)
NatConv(a, b, k, i) ==
    IF i > Len(a) \/ i > k THEN 0
    ELSE Limb(a, i) * Limb(b, k + 1 - i) + NatConv(a, b, k, i + 1)

NatMul(a, b) ==
    IF a = <<>> \/ b = <<>> THEN <<>>
    ELSE NatCarry([k \in 1..(Len(a) + Len(b) - 1) |-> NatConv(a, b, k, 1)])

\* -1, 0, 1 as a < b, a = b, a > b
RECURSIVE NatCmpFrom(_, _, _)
NatCmpFrom(a, b, i) ==
    IF i = 0 THEN 0
    ELSE IF a[i] < b[i] THEN -1
    ELSE IF a[i] > b[i] THEN 1
    ELSE NatCmpFrom(a, b, i - 1)

NatCmp(a, b) ==
    IF Len(a) < Len(b) THEN -1
    ELSE IF Len(a) > Len(b) THEN 1
    ELSE NatCmpFrom(a, b, Len(a))

SmallBitLen(n) == CHOOSE k \in 0..LimbBits : n < Pow2(k) /\ (k = 0 \/ n >= Pow2(k - 1))

NatBitLen(a) ==
    IF a = <<>> THEN 0 ELSE LimbBits * (Len(a) - 1) + SmallBitLen(a[Len(a)])

\* a * 2^k
NatShl(a, k) ==
    IF a = <<>> THEN <<>>
    ELSE [i \in 1..(k \div LimbBits) |-> 0]
         \o NatCarry([i \in 1..Len(a) |-> a[i] * Pow2(k % LimbBits)])

\* floor(a / 2^k)
NatShr(a, k) ==
    LET q == k \div LimbBits
        r == k % LimbBits
    IN  IF q >= Len(a) THEN <<>>
        ELSE NatNorm([i \in 1..(Len(a) - q) |->
                 (a[i + q] \div Pow2(r))
                 + (Limb(a, i + q + 1) % Pow2(r)) * Pow2(LimbBits - r)])

SmallTrailingZeros(n) == CHOOSE k \in 0..LimbBits : n % Pow2(k) = 0 /\ (n \div Pow2(k)) % 2 = 1

RECURSIVE NatTrailingZeros(_)
NatTrailingZeros(a) ==
    IF a[1] = 0 THEN LimbBits + NatTrailingZeros(Tail(a))
    ELSE SmallTrailingZeros(a[1])

\* <<quotient, remainder>> of a by the integer d, 0 < d < 2^21; i runs from
\* the top limb down (short division).
RECURSIVE NatDivSmallFrom(_, _, _, _)
NatDivSmallFrom(a, d, i, r) ==
    IF i = 0 THEN <<<<>>, r>>
    ELSE LET t == r * LimbBase + a[i]
             rest == NatDivSmallFrom(a, d, i - 1, t % d)
         IN  <<rest[1] \o <<t \div d>>, rest[2]>>

NatDivSmall(a, d) ==
    LET res == NatDivSmallFrom(a, d, Len(a), 0)
    IN  <<NatNorm(res[1]), res[2]>>

(***************************************************************************)
(* IEEE-754 binary64 values: sign, odd significand m (a natural number of  *)
(* at most 53 bits, <<>> for zero) and exponent e, standing for            *)
(* (-1)^neg * m * 2^e.  The magnitudes of this program stay far from       *)
(* overflow and underflow, and no operation here yields NaN: every         *)
(* division of the source is guarded against a zero divisor.               *)
(***************************************************************************)
SignificandBits == 53

DZero == [neg |-> FALSE, m |-> <<>>, e |-> 0]

\* the value m * 2^e with m brought to its odd part (m # 0, at most 53 bits)
DMake(neg, m, e) ==
    LET tz == NatTrailingZeros(m)
    IN  [neg |-> neg, m |-> NatShr(m, tz), e |-> e + tz]

\* Round m * 2^e (plus, when sticky, a positive fraction of the last unit of
\* m) to the nearest binary64 value, ties to even.
DRound(neg, m, e, sticky) ==
    IF m = <<>> THEN DZero
    ELSE LET k == NatBitLen(m) - SignificandBits
         IN  IF k <= 0 THEN DMake(neg, m, e)
             ELSE LET q    == NatShr(m, k)
                      rem  == NatSub(m, NatShl(q, k))
                      c    == NatCmp(rem, NatShl(<<1>>, k - 1))
                      up   == c = 1 \/ (c = 0 /\ (sticky \/ q[1] % 2 = 1))
                  IN  DMake(neg, IF up THEN NatAdd(q, <<1>>) ELSE q, e + k)

DOfInt(n) ==
    IF n = 0 THEN DZero
    ELSE DMake(n < 0, NatOfInt(IF n < 0 THEN -n ELSE n), 0)

\* the exact product of x and y (any number of significand bits)
XMul(x, y) ==
    IF x.m = <<>> \/ y.m = <<>> THEN DZero
    ELSE DMake(x.neg # y.neg, NatMul(x.m, y.m), x.e + y.e)

\* the nearest binary64 value of an exact value
DRnd(x) == DRound(x.neg, x.m, x.e, FALSE)

\* x * y
DMul(x, y) == DRnd(XMul(x, y))

\* x / y, for y # 0 whose odd significand is below 2^20 (every divisor of
\* the source is an integer: 100, a sum of cents, a percentage, a length)
DDiv(x, y) ==
    IF x.m = <<>> THEN DZero
    ELSE LET s  == MaxOf(0, SignificandBits + 2 + NatBitLen(y.m) - NatBitLen(x.m))
             qr == NatDivSmall(NatShl(x.m, s), NatToInt(y.m))
         IN  DRound(x.neg # y.neg, qr[1], x.e - y.e - s, qr[2] # 0)

DNeg(x) == IF x.m = <<>> THEN x ELSE [x EXCEPT !.neg = ~x.neg]

\* the exact sum of x and y
XAdd(x, y) ==
    IF x.m = <<>> THEN y
    ELSE IF y.m = <<>> THEN x
    ELSE LET e  == IF x.e <= y.e THEN x.e ELSE y.e
             xm == NatShl(x.m, x.e - e)
             ym == NatShl(y.m, y.e - e)
             c  == NatCmp(xm, ym)
         IN  IF x.neg = y.neg THEN DMake(x.neg, NatAdd(xm, ym), e)
             ELSE IF c = 0 THEN DZero
             ELSE IF c = 1 THEN DMake(x.neg, NatSub(xm, ym), e)
             ELSE DMake(y.neg, NatSub(ym, xm), e)

XSub(x, y) == XAdd(x, DNeg(y))

\* x + y
DAdd(x, y) == DRnd(XAdd(x, y))

\* x - y
DSub(x, y) == DRnd(XSub(x, y))

\* -1, 0, 1 as x < y, x = y, x > y
DCmp(x, y) ==
    LET d == XSub(x, y)
    IN  IF d.m = <<>> THEN 0 ELSE IF d.neg THEN -1 ELSE 1

DLt(x, y) == DCmp(x, y) < 0

DLe(x, y) == DCmp(x, y) <= 0

DGe(x, y) == DCmp(x, y) >= 0

DGt(x, y) == DCmp(x, y) > 0

\* the decimal literal num/den (0.8 is DLit(8, 10)): the nearest binary64
DLit(num, den) == DDiv(DOfInt(num), DOfInt(den))

MathMax(x, y) == IF DGe(x, y) THEN x ELSE y

MathMin(x, y) == IF DLe(x, y) THEN x ELSE y

\* Math.round: the integer floor(x + 1/2), computed exactly
MathRound(x) ==
    IF x.m = <<>> THEN 0
    ELSE IF x.e >= 0 THEN (IF x.neg THEN -1 ELSE 1) * NatToInt(NatShl(x.m, x.e))
    ELSE LET k    == -x.e
             half == NatShl(<<1>>, k - 1)
         IN  IF ~x.neg THEN NatToInt(NatShr(NatAdd(x.m, half), k))
             ELSE IF NatCmp(x.m, half) <= 0 THEN 0
             ELSE -(NatToInt(NatShr(NatAdd(NatSub(x.m, half), NatSub(NatShl(<<1>>, k), <<1>>)), k)))

(***************************************************************************)
(* Goal categories, the expense-category classification and the default    *)
(* allocations.                                                            *)
(***************************************************************************)
GoalCategory ==
    {"savings", "investments", "needs", "wants", "debt_repayment", "emergency_fund"}

\* the ids of the built-in expense categories
ExpenseCategory ==
    {"rent", "electricity", "gas", "wifi", "groceries", "amazon", "eating_out",
     "fuel", "subscriptions", "travel", "miscellaneous"}

\* an id of a custom category: custom-<Date.now()>
CustomCategoryIds == {"custom-1700000000000"}

CategoryIds == ExpenseCategory \cup CustomCategoryIds

needsCategories == {"rent", "electricity", "gas", "wifi", "groceries"}

wantsCategories == {"amazon", "eating_out", "miscellaneous"}

\* Faulty variant: an id outside both tables falls back to needs.
mapExpenseToGoalCategoryNeedsDefault(expenseCategory) ==
    IF expenseCategory \in needsCategories THEN "needs"
    ELSE IF expenseCategory \in wantsCategories THEN "wants"
    ELSE "needs"

mapExpenseToGoalCategory(expenseCategory) ==
    IF expenseCategory \in needsCategories THEN "needs"
    ELSE IF expenseCategory \in wantsCategories THEN "wants"
    ELSE "wants"

Allocation(category, targetPercentage) ==
    [category |-> category, targetPercentage |-> targetPercentage]

DEFAULT_GOAL_ALLOCATIONS ==
    << Allocation("needs", 50), Allocation("wants", 20), Allocation("savings", 15),
       Allocation("investments", 10), Allocation("emergency_fund", 5) >>

(***************************************************************************)
(* calculateProgress                                                       *)
(***************************************************************************)
\* records.reduce((sum, r) => sum + r.amount, 0)
RECURSIVE SumAmounts(_)
SumAmounts(records) ==
    IF records = <<>> THEN 0 ELSE records[1].amount + SumAmounts(Tail(records))

\* Faulty variant: an expense whose category neither list names is added to
\* no bucket.
SpentInListed(goalCategory, exps) ==
    SumAmounts(SelectSeq(exps, LAMBDA e :
        \/ goalCategory = "needs" /\ e.category \in needsCategories
        \/ goalCategory = "wants" /\ e.category \in wantsCategories))

\* the forEach that adds every expense to the bucket of its goal category
SpentIn(goalCategory, exps) ==
    SumAmounts(SelectSeq(exps, LAMBDA e : mapExpenseToGoalCategory(e.category) = goalCategory))

\* Faulty variant: the residual savings are not floored at 0.
actualByCategoryUnclamped(totalIncome, exps) ==
    [c \in GoalCategory |->
        IF c = "savings" THEN totalIncome - SumAmounts(exps)
        ELSE IF c \in {"needs", "wants"} THEN SpentIn(c, exps)
        ELSE 0]

\* actualByCategory after the forEach and after savings is overwritten
actualByCategory(totalIncome, exps) ==
    LET totalExpenses == SumAmounts(exps)
        netSavings    == MaxOf(0, totalIncome - totalExpenses)
    IN  [c \in GoalCategory |->
            IF c = "savings" THEN netSavings
            ELSE IF c \in {"needs", "wants"} THEN SpentIn(c, exps)
            ELSE 0]

\* Faulty variant: spending of exactly 80% of the target counts as ahead.
ProgressStatusInclusive(category, actualAmount, targetAmount) ==
    LET actual == DOfInt(actualAmount)
    IN  IF category = "needs" \/ category = "wants"
        THEN IF DLe(actual, DMul(targetAmount, DLit(8, 10))) THEN "ahead"
             ELSE IF DLe(actual, targetAmount) THEN "on_track" ELSE "behind"
        ELSE IF DGe(actual, DMul(targetAmount, DLit(11, 10))) THEN "ahead"
             ELSE IF DGe(actual, DMul(targetAmount, DLit(9, 10))) THEN "on_track"
             ELSE "behind"

\* Faulty variant: only an amount above 110% of the target counts as ahead.
ProgressStatusStrictAhead(category, actualAmount, targetAmount) ==
    LET actual == DOfInt(actualAmount)
    IN  IF category = "needs" \/ category = "wants"
        THEN IF DLt(actual, DMul(targetAmount, DLit(8, 10))) THEN "ahead"
             ELSE IF DLe(actual, targetAmount) THEN "on_track" ELSE "behind"
        ELSE IF DGt(actual, DMul(targetAmount, DLit(11, 10))) THEN "ahead"
             ELSE IF DGe(actual, DMul(targetAmount, DLit(9, 10))) THEN "on_track"
             ELSE "behind"

\* the status of one allocation
ProgressStatus(category, actualAmount, targetAmount) ==
    LET actual == DOfInt(actualAmount)
    IN  IF category = "needs" \/ category = "wants"
        THEN IF DLt(actual, DMul(targetAmount, DLit(8, 10))) THEN "ahead"
             ELSE IF DLe(actual, targetAmount) THEN "on_track" ELSE "behind"
        ELSE IF DGe(actual, DMul(targetAmount, DLit(11, 10))) THEN "ahead"
             ELSE IF DGe(actual, DMul(targetAmount, DLit(9, 10))) THEN "on_track"
             ELSE "behind"

\* Faulty variant: without income, an amount spent counts as 100% of it.
ProgressOfFullWithoutIncome(alloc, totalIncome, actuals) ==
    LET targetAmount == DDiv(DOfInt(totalIncome * alloc.targetPercentage), DOfInt(100))
        actualAmount == actuals[alloc.category]
        actualPercentage ==
            IF totalIncome > 0
            THEN DMul(DDiv(DOfInt(actualAmount), DOfInt(totalIncome)), DOfInt(100))
            ELSE IF actualAmount > 0 THEN DOfInt(100) ELSE DZero
    IN  [category         |-> alloc.category,
         targetPercentage |-> alloc.targetPercentage,
         actualPercentage |-> actualPercentage,
         targetAmount     |-> targetAmount,
         actualAmount     |-> actualAmount,
         difference       |-> DSub(DOfInt(actualAmount), targetAmount),
         status           |-> ProgressStatus(alloc.category, actualAmount, targetAmount)]

\* the body of allocations.map
ProgressOf(alloc, totalIncome, actuals) ==
    LET targetAmount == DDiv(DOfInt(totalIncome * alloc.targetPercentage), DOfInt(100))
        actualAmount == actuals[alloc.category]
        actualPercentage ==
            IF totalIncome > 0
            THEN DMul(DDiv(DOfInt(actualAmount), DOfInt(totalIncome)), DOfInt(100))
            ELSE DZero
    IN  [category         |-> alloc.category,
         targetPercentage |-> alloc.targetPercentage,
         actualPercentage |-> actualPercentage,
         targetAmount     |-> targetAmount,
         actualAmount     |-> actualAmount,
         difference       |-> DSub(DOfInt(actualAmount), targetAmount),
         status           |-> ProgressStatus(alloc.category, actualAmount, targetAmount)]

calculateProgress(allocations, totalIncome, exps) ==
    LET actuals == actualByCategory(totalIncome, exps)
    IN  [i \in 1..Len(allocations) |-> ProgressOf(allocations[i], totalIncome, actuals)]

(***************************************************************************)
(* generateInsights.  A message is modelled by the template it is built    *)
(* from; its text is display only.                                         *)
(***************************************************************************)
NoCategory == "none"

Insight(type, category, message, hasAction) ==
    [type |-> type, category |-> category, message |-> message, action |-> hasAction]

\* Faulty variant: every record that is not behind gets a success insight.
InsightsOfNotBehind(p) ==
    IF p.status = "behind"
    THEN IF p.category = "needs" \/ p.category = "wants"
         THEN << Insight("warning", p.category, "overspending", TRUE) >>
         ELSE << Insight("warning", p.category, "below_target", TRUE) >>
    ELSE << Insight("success", p.category, "great_job", FALSE) >>

\* the body of progress.forEach: the insights pushed for one record
InsightsOf(p) ==
    IF p.status = "behind"
    THEN IF p.category = "needs" \/ p.category = "wants"
         THEN << Insight("warning", p.category, "overspending", TRUE) >>
         ELSE << Insight("warning", p.category, "below_target", TRUE) >>
    ELSE IF p.status = "ahead"
    THEN << Insight("success", p.category, "great_job", FALSE) >>
    ELSE << >>

RECURSIVE PerCategoryInsights(_)
PerCategoryInsights(progress) ==
    IF progress = <<>> THEN <<>>
    ELSE InsightsOf(progress[1]) \o PerCategoryInsights(Tail(progress))

\* Faulty variant: the tip needs 80% of the records not behind.
AggregateInsightAt80(progress) ==
    LET onTrackCount == Len(SelectSeq(progress, LAMBDA p : p.status # "behind"))
    IN  IF onTrackCount = Len(progress)
        THEN << Insight("success", NoCategory, "all_on_track", FALSE) >>
        ELSE IF DGe(DOfInt(onTrackCount), DMul(DOfInt(Len(progress)), DLit(8, 10)))
        THEN << Insight("tip", NoCategory, "doing_well", FALSE) >>
        ELSE << >>

\* the general tip pushed after the loop
AggregateInsight(progress) ==
    LET onTrackCount == Len(SelectSeq(progress, LAMBDA p : p.status # "behind"))
    IN  IF onTrackCount = Len(progress)
        THEN << Insight("success", NoCategory, "all_on_track", FALSE) >>
        ELSE IF DGe(DOfInt(onTrackCount), DMul(DOfInt(Len(progress)), DLit(7, 10)))
        THEN << Insight("tip", NoCategory, "doing_well", FALSE) >>
        ELSE << >>

generateInsights(progress) == PerCategoryInsights(progress) \o AggregateInsight(progress)

(***************************************************************************)
(* calculateOverallScore                                                   *)
(***************************************************************************)
\* Faulty variant: the overspending penalty is not floored at 0.
CategoryScoreUnfloored(p) ==
    IF p.category = "needs" \/ p.category = "wants"
    THEN IF DLe(p.actualPercentage, DOfInt(p.targetPercentage)) THEN DOfInt(100)
         ELSE LET overBy == DSub(p.actualPercentage, DOfInt(p.targetPercentage))
              IN  DSub(DOfInt(100), DMul(overBy, DOfInt(5)))
    ELSE LET ratio == IF p.targetPercentage > 0
                      THEN DDiv(p.actualPercentage, DOfInt(p.targetPercentage))
                      ELSE DOfInt(1)
         IN  MathMin(DOfInt(100), DMul(ratio, DOfInt(100)))

\* Faulty variant: a zero target gives the ratio 0 instead of 1.
CategoryScoreZeroRatio(p) ==
    IF p.category = "needs" \/ p.category = "wants"
    THEN IF DLe(p.actualPercentage, DOfInt(p.targetPercentage)) THEN DOfInt(100)
         ELSE LET overBy == DSub(p.actualPercentage, DOfInt(p.targetPercentage))
              IN  MathMax(DZero, DSub(DOfInt(100), DMul(overBy, DOfInt(5))))
    ELSE LET ratio == IF p.targetPercentage > 0
                      THEN DDiv(p.actualPercentage, DOfInt(p.targetPercentage))
                      ELSE DZero
         IN  MathMin(DOfInt(100), DMul(ratio, DOfInt(100)))

\* Faulty variant: the ratio is 1 when nothing was put aside, not when the
\* target is 0.
CategoryScoreActualGuard(p) ==
    IF p.category = "needs" \/ p.category = "wants"
    THEN IF DLe(p.actualPercentage, DOfInt(p.targetPercentage)) THEN DOfInt(100)
         ELSE LET overBy == DSub(p.actualPercentage, DOfInt(p.targetPercentage))
              IN  MathMax(DZero, DSub(DOfInt(100), DMul(overBy, DOfInt(5))))
    ELSE LET ratio == IF DGt(p.actualPercentage, DZero) /\ p.targetPercentage > 0
                      THEN DDiv(p.actualPercentage, DOfInt(p.targetPercentage))
                      ELSE DOfInt(1)
         IN  MathMin(DOfInt(100), DMul(ratio, DOfInt(100)))

\* categoryScore of one record
CategoryScore(p) ==
    IF p.category = "needs" \/ p.category = "wants"
    THEN IF DLe(p.actualPercentage, DOfInt(p.targetPercentage)) THEN DOfInt(100)
         ELSE LET overBy == DSub(p.actualPercentage, DOfInt(p.targetPercentage))
              IN  MathMax(DZero, DSub(DOfInt(100), DMul(overBy, DOfInt(5))))
    ELSE LET ratio == IF p.targetPercentage > 0
                      THEN DDiv(p.actualPercentage, DOfInt(p.targetPercentage))
                      ELSE DOfInt(1)
         IN  MathMin(DOfInt(100), DMul(ratio, DOfInt(100)))

\* totalScore after the forEach
RECURSIVE TotalScore(_, _)
TotalScore(progress, i) ==
    IF i = 0 THEN DZero
    ELSE DAdd(TotalScore(progress, i - 1), CategoryScore(progress[i]))

\* Faulty variant: the mean is truncated (Math.floor) instead of rounded.
calculateOverallScoreFloor(progress) ==
    IF Len(progress) = 0 THEN 0
    ELSE MathRound(XSub(DDiv(TotalScore(progress, Len(progress)), DOfInt(Len(progress))),
                        DLit(1, 2)))

calculateOverallScore(progress) ==
    IF Len(progress) = 0 THEN 0
    ELSE MathRound(DDiv(TotalScore(progress, Len(progress)), DOfInt(Len(progress))))

(***************************************************************************)
(* The analytics memo of useGoals                                          *)
(***************************************************************************)
\* null (a record, so that it compares with the analytics record)
Null == [null |-> TRUE]

GoalsAnalytics(allocations, exps, inc) ==
    LET totalIncome == SumAmounts(inc)
        progress    == calculateProgress(allocations, totalIncome, exps)
    IN  [totalIncome    |-> totalIncome,
         totalAllocated |-> SumAmounts(exps),
         progress       |-> progress,
         overallScore   |-> calculateOverallScore(progress),
         trend          |-> 0,
         insights       |-> generateInsights(progress)]

(***************************************************************************)
(* Inputs of the hook: the stored allocations and the month's records      *)
(***************************************************************************)
MaxExpenses == 2

Expense(category, amount) == [category |-> category, amount |-> amount]

Income(amount) == [amount |-> amount]

ExpenseChoices ==
    { Expense("rent", 80), Expense("groceries", 100), Expense("rent", 90000),
      Expense("amazon", 810), Expense("fuel", 820) }

IncomeLists == { <<>>, << Income(1000) >>, << Income(200000) >> }

\* goals.allocations as saveGoals and updateAllocation store them: neither of
\* them constrains the categories of the list or the sum of its percentages
AllocationLists ==
    { <<>>,
      DEFAULT_GOAL_ALLOCATIONS,
      << Allocation("needs", 10), Allocation("wants", 10), Allocation("savings", 10),
         Allocation("debt_repayment", 0) >>,
      << Allocation("savings", 20), Allocation("needs", 50), Allocation("investments", 30) >>,
      << Allocation("emergency_fund", 0), Allocation("savings", 0), Allocation("wants", 0) >> }

SeqsUpTo(S, n) == UNION { [1..k -> S] : k \in 0..n }

(***************************************************************************)
(* calculateCategoryBreakdown                                              *)
(***************************************************************************)
\* the keys of categoryMap after the first i expenses, in insertion order
RECURSIVE CategoryKeys(_, _)
CategoryKeys(exps, i) ==
    IF i = 0 THEN <<>>
    ELSE LET prev == CategoryKeys(exps, i - 1)
         IN  IF \E k \in 1..Len(prev) : prev[k] = exps[i].category
             THEN prev
             ELSE Append(prev, exps[i].category)

\* Faulty variant: the record that creates a map entry is not counted.
BreakdownEntryMiscounted(exps, category, total) ==
    LET mine   == SelectSeq(exps, LAMBDA e : e.category = category)
        amount == SumAmounts(mine)
    IN  [category   |-> category,
         amount     |-> amount,
         percentage |-> DMul(DDiv(DOfInt(amount), DOfInt(total)), DOfInt(100)),
         count      |-> Len(mine) - 1]

\* the entry pushed for one key of categoryMap
BreakdownEntry(exps, category, total) ==
    LET mine   == SelectSeq(exps, LAMBDA e : e.category = category)
        amount == SumAmounts(mine)
    IN  [category   |-> category,
         amount     |-> amount,
         percentage |-> DMul(DDiv(DOfInt(amount), DOfInt(total)), DOfInt(100)),
         count      |-> Len(mine)]

\* x put behind every entry of the sorted list whose amount is not smaller
InsertByAmount(sorted, x) ==
    LET before == Len(SelectSeq(sorted, LAMBDA y : y.amount >= x.amount))
    IN  SubSeq(sorted, 1, before) \o <<x>> \o SubSeq(sorted, before + 1, Len(sorted))

\* sort((a, b) => b.amount - a.amount): stable, amount descending
RECURSIVE SortByAmountDesc(_, _)
SortByAmountDesc(entries, i) ==
    IF i = 0 THEN <<>>
    ELSE InsertByAmount(SortByAmountDesc(entries, i - 1), entries[i])

calculateCategoryBreakdown(exps) ==
    LET total == SumAmounts(exps)
        keys  == CategoryKeys(exps, Len(exps))
        breakdown == [k \in 1..Len(keys) |-> BreakdownEntry(exps, keys[k], total)]
    IN  IF total = 0 THEN <<>>
        ELSE SortByAmountDesc(breakdown, Len(breakdown))

MaxAnalyticsExpenses == 3

AnalyticsExpenseChoices ==
    { Expense("rent", 10000), Expense("rent", 5000), Expense("groceries", 20000),
      Expense("amazon", 5000), Expense("fuel", 700) }

(***************************************************************************)
(* Dates.  A Date is a local calendar day, counted from 1970-01-01, and    *)
(* the milliseconds since that day's midnight; the local time zone has no  *)
(* daylight-saving transitions.  Months are numbered from 0 as in JS.      *)
(***************************************************************************)
MsPerDay == 86400000

Date(day, ms) == [day |-> day, ms |-> ms]

\* the day number of the civil date y-m-d, m in 1..12, d in 1..31
DaysFromCivil(y, m, d) ==
    LET yy  == IF m <= 2 THEN y - 1 ELSE y
        era == yy \div 400
        yoe == yy - era * 400
        doy == (153 * (IF m > 2 THEN m - 3 ELSE m + 9) + 2) \div 5 + d - 1
        doe == yoe * 365 + yoe \div 4 - yoe \div 100 + doy
    IN  era * 146097 + doe - 719468

\* the civil date of day number z
CivilFromDays(z) ==
    LET zz  == z + 719468
        era == zz \div 146097
        doe == zz - era * 146097
        yoe == (doe - doe \div 1460 + doe \div 36524 - doe \div 146096) \div 365
        doy == doe - (365 * yoe + yoe \div 4 - yoe \div 100)
        mp  == (5 * doy + 2) \div 153
        d   == doy - (153 * mp + 2) \div 5 + 1
        m   == IF mp < 10 THEN mp + 3 ELSE mp - 9
    IN  [year |-> yoe + era * 400 + (IF m <= 2 THEN 1 ELSE 0), month |-> m - 1, date |-> d]

getYear(d) == CivilFromDays(d.day).year

getMonth(d) == CivilFromDays(d.day).month

getDate(d) == CivilFromDays(d.day).date

\* Date.prototype.getDay: 0 is Sunday; 1970-01-01 was a Thursday
getDay(d) == (d.day + 4) % 7

\* new Date(year, monthIndex, day): a month index outside 0..11 and a day
\* outside the month carry over
NewDate(year, monthIndex, day) ==
    LET y == year + monthIndex \div 12
        m == monthIndex % 12
    IN  Date(DaysFromCivil(y, m + 1, 1) + day - 1, 0)

\* new Date(y, m, d, h, min, s, ms) for a time of day within the day
DateTime(year, monthIndex, day, ms) == Date(NewDate(year, monthIndex, day).day, ms)

DateLe(a, b) == a.day < b.day \/ (a.day = b.day /\ a.ms <= b.ms)

DateGe(a, b) == DateLe(b, a)

startOfDay(d) == Date(d.day, 0)

endOfDay(d) == Date(d.day, MsPerDay - 1)

startOfMonth(d) == NewDate(getYear(d), getMonth(d), 1)

\* the last millisecond of the month: day 0 of the next month
endOfMonth(d) == endOfDay(NewDate(getYear(d), getMonth(d) + 1, 0))

\* startOfWeek(d, { weekStartsOn: 0 }): the Sunday at or before d
startOfWeek(d) == Date(d.day - getDay(d), 0)

\* endOfWeek(d, { weekStartsOn: 0 }): the last millisecond of the Saturday
endOfWeek(d) == Date(d.day + (6 - getDay(d)), MsPerDay - 1)

\* eachDayOfInterval: the midnights from the day of start while <= end
eachDayOfInterval(start, end) ==
    LET last == IF DateLe(startOfDay(end), end) THEN end.day ELSE end.day - 1
    IN  [i \in 1..(last - start.day + 1) |-> Date(start.day + i - 1, 0)]

\* Faulty variant: the weeks are counted from the day of start, not from its
\* Sunday.
eachWeekOfIntervalFromStart(start, end) ==
    LET first == startOfWeek(start).day
        last  == startOfWeek(end).day
    IN  [i \in 1..((last - first) \div 7 + 1) |-> Date(start.day + 7 * (i - 1), 0)]

\* eachWeekOfInterval(.., { weekStartsOn: 0 }): the Sundays from the week of
\* start to the week of end
eachWeekOfInterval(start, end) ==
    LET first == startOfWeek(start).day
        last  == startOfWeek(end).day
    IN  [i \in 1..((last - first) \div 7 + 1) |-> Date(first + 7 * (i - 1), 0)]

\* a Firestore Timestamp: whole seconds and nanoseconds, here the seconds
\* split into the local day and the seconds since its midnight
TimestampFromDate(d) ==
    [day |-> d.day, seconds |-> d.ms \div 1000, nanoseconds |-> (d.ms % 1000) * 1000000]

\* Timestamp.toDate(): seconds * 1000 + nanoseconds / 1e6 milliseconds
toDate(ts) == Date(ts.day, ts.seconds * 1000 + ts.nanoseconds \div 1000000)

\* the records whose date, as a Date, satisfies Keep
DatedWithin(records, Keep(_)) == SelectSeq(records, LAMBDA r : Keep(toDate(r.date)))

(***************************************************************************)
(* Strings of the month handling: a string is a sequence of characters     *)
(***************************************************************************)
DigitChars == <<"0", "1", "2", "3", "4", "5", "6", "7", "8", "9">>

\* String(n) for n >= 0
RECURSIVE NumberToString(_)
NumberToString(n) ==
    IF n < 10 THEN << DigitChars[n + 1] >>
    ELSE Append(NumberToString(n \div 10), DigitChars[(n % 10) + 1])

\* s.padStart(2, '0')
PadStart2(s) == IF Len(s) < 2 THEN <<"0">> \o s ELSE s

DigitValue(c) == CHOOSE v \in 0..9 : DigitChars[v + 1] = c

\* parseInt(s) for a string of digits
RECURSIVE ParseInt(_)
ParseInt(s) ==
    IF Len(s) = 1 THEN DigitValue(s[1])
    ELSE 10 * ParseInt(SubSeq(s, 1, Len(s) - 1)) + DigitValue(s[Len(s)])

\* `${getYear(date)}-${String(getMonth(date) + 1).padStart(2, '0')}`
MonthKey(date) ==
    NumberToString(getYear(date)) \o <<"-">> \o PadStart2(NumberToString(getMonth(date) + 1))

\* key.split('-'): the pieces between the dashes
RECURSIVE SplitDash(_)
SplitDash(s) ==
    IF \A i \in 1..Len(s) : s[i] # "-" THEN << s >>
    ELSE LET k == CHOOSE i \in 1..Len(s) : s[i] = "-" /\ \A j \in 1..(i - 1) : s[j] # "-"
         IN  << SubSeq(s, 1, k - 1) >> \o SplitDash(SubSeq(s, k + 1, Len(s)))

\* the abbreviated month names of format(date, 'MMM')
MonthNames ==
    <<"Jan", "Feb", "Mar", "Apr", "May", "Jun", "Jul", "Aug", "Sep", "Oct", "Nov", "Dec">>

\* format(date, 'MMM')
FormatMMM(date) == MonthNames[getMonth(date) + 1]

\* months.indexOf(name)
MonthIndexOf(name) ==
    IF \E i \in 1..12 : MonthNames[i] = name
    THEN (CHOOSE i \in 1..12 : MonthNames[i] = name) - 1
    ELSE -1

\* the number of days of the month of d
getDaysInMonth(d) == getDate(endOfMonth(d))

\* subMonths(d, n): the same day of the month n months earlier, or that
\* month's last day when it is shorter; the time of day is kept
subMonths(d, n) ==
    LET first == NewDate(getYear(d), getMonth(d) - n, 1)
        last  == getDaysInMonth(first)
    IN  Date(first.day + (IF getDate(d) < last THEN getDate(d) ELSE last) - 1, d.ms)

startOfYear(d) == NewDate(getYear(d), 0, 1)

endOfYear(d) == endOfDay(NewDate(getYear(d), 11, 31))

DateRange(start, end) == [start |-> start, end |-> end]

getDateRange(period, referenceDate) ==
    LET today == startOfDay(referenceDate)
    IN  CASE period = "week" -> DateRange(startOfWeek(today), endOfWeek(today))
          [] period = "month" -> DateRange(startOfMonth(today), endOfMonth(today))
          [] period = "quarter" ->
                 DateRange(startOfMonth(subMonths(today, 2)), endOfMonth(today))
          [] period = "year" -> DateRange(startOfYear(today), endOfYear(today))
          [] OTHER -> DateRange(startOfMonth(today), endOfMonth(today))

subWeeks(d, n) == Date(d.day - 7 * n, d.ms)

\* subYears(d, n): the same day n years earlier, 28 February for a 29 February
\* when that year has none
subYears(d, n) == subMonths(d, 12 * n)

\* Faulty variant: the previous quarter is taken three months too early.
getPreviousPeriodShiftedQuarter(period, referenceDate) ==
    LET today == startOfDay(referenceDate)
    IN  CASE period = "week" ->
                 DateRange(startOfWeek(subWeeks(today, 1)), endOfWeek(subWeeks(today, 1)))
          [] period = "quarter" ->
                 DateRange(startOfMonth(subMonths(today, 8)), endOfMonth(subMonths(today, 6)))
          [] period = "year" ->
                 DateRange(startOfYear(subYears(today, 1)), endOfYear(subYears(today, 1)))
          [] OTHER ->
                 DateRange(startOfMonth(subMonths(today, 1)), endOfMonth(subMonths(today, 1)))

getPreviousPeriod(period, referenceDate) ==
    LET today == startOfDay(referenceDate)
    IN  CASE period = "week" ->
                 LET prevWeek == subWeeks(today, 1)
                 IN  DateRange(startOfWeek(prevWeek), endOfWeek(prevWeek))
          [] period = "month" ->
                 LET prevMonth == subMonths(today, 1)
                 IN  DateRange(startOfMonth(prevMonth), endOfMonth(prevMonth))
          [] period = "quarter" ->
                 LET prevQuarter == subMonths(today, 5)
                 IN  DateRange(startOfMonth(prevQuarter), endOfMonth(subMonths(today, 3)))
          [] period = "year" ->
                 LET prevYear == subYears(today, 1)
                 IN  DateRange(startOfYear(prevYear), endOfYear(prevYear))
          [] OTHER ->
                 LET prev == subMonths(today, 1)
                 IN  DateRange(startOfMonth(prev), endOfMonth(prev))

(***************************************************************************)
(* calculateMonthlyTotals                                                  *)
(***************************************************************************)
\* the keys of monthlyMap after the first i expenses, in insertion order
RECURSIVE MonthKeys(_, _)
MonthKeys(exps, i) ==
    IF i = 0 THEN <<>>
    ELSE LET prev == MonthKeys(exps, i - 1)
             key  == MonthKey(toDate(exps[i].date))
         IN  IF \E k \in 1..Len(prev) : prev[k] = key THEN prev ELSE Append(prev, key)

\* Faulty variant: the entry counts every expense of the list.
MonthlyTotalMiscounted(exps, key) ==
    LET mine  == DatedWithin(exps, LAMBDA d : MonthKey(d) = key)
        parts == SplitDash(key)
        date  == NewDate(ParseInt(parts[1]), ParseInt(parts[2]) - 1, 1)
    IN  [month |-> FormatMMM(date),
         year  |-> getYear(toDate(mine[Len(mine)].date)),
         total |-> SumAmounts(mine),
         count |-> Len(exps)]

\* the entry pushed for one key of monthlyMap
MonthlyTotal(exps, key) ==
    LET mine  == DatedWithin(exps, LAMBDA d : MonthKey(d) = key)
        parts == SplitDash(key)
        date  == NewDate(ParseInt(parts[1]), ParseInt(parts[2]) - 1, 1)
    IN  [month |-> FormatMMM(date),
         year  |-> getYear(toDate(mine[Len(mine)].date)),
         total |-> SumAmounts(mine),
         count |-> Len(mine)]

\* the comparator of totals.sort: negative, zero or positive
CompareMonthlyTotals(a, b) ==
    IF a.year # b.year THEN a.year - b.year
    ELSE MonthIndexOf(a.month) - MonthIndexOf(b.month)

\* Faulty variant: the months are compared by name.
InsertChronologicallyByName(sorted, x) ==
    LET NameIndex(t) ==
            CHOOSE i \in 1..12 :
                <<"Apr", "Aug", "Dec", "Feb", "Jan", "Jul", "Jun", "Mar", "May", "Nov",
                  "Oct", "Sep">>[i] = t.month
        before == Len(SelectSeq(sorted, LAMBDA y :
                      y.year < x.year \/ (y.year = x.year /\ NameIndex(y) <= NameIndex(x))))
    IN  SubSeq(sorted, 1, before) \o <<x>> \o SubSeq(sorted, before + 1, Len(sorted))

\* x put behind every entry of the sorted list that does not compare greater
InsertChronologically(sorted, x) ==
    LET before == Len(SelectSeq(sorted, LAMBDA y : CompareMonthlyTotals(y, x) <= 0))
    IN  SubSeq(sorted, 1, before) \o <<x>> \o SubSeq(sorted, before + 1, Len(sorted))

RECURSIVE SortChronologically(_, _)
SortChronologically(totals, i) ==
    IF i = 0 THEN <<>>
    ELSE InsertChronologically(SortChronologically(totals, i - 1), totals[i])

calculateMonthlyTotals(exps) ==
    LET keys   == MonthKeys(exps, Len(exps))
        totals == [k \in 1..Len(keys) |-> MonthlyTotal(exps, keys[k])]
    IN  SortChronologically(totals, Len(totals))

(***************************************************************************)
(* calculateWeeklyTrend                                                    *)
(***************************************************************************)
\* the amount of the week that starts at weekStart
WeekAmount(exps, weekStart) ==
    LET weekEnd == endOfWeek(weekStart)
    IN  SumAmounts(DatedWithin(exps, LAMBDA d : DateGe(d, weekStart) /\ DateLe(d, weekEnd)))

\* runningTotal after the first i weeks
RECURSIVE RunningTotal(_, _, _)
RunningTotal(exps, weeks, i) ==
    IF i = 0 THEN 0 ELSE RunningTotal(exps, weeks, i - 1) + WeekAmount(exps, weeks[i])

\* Faulty variant: the average divides by the zero-based index of the week.
WeeklyTrendEntryZeroBased(exps, weeks, index) ==
    [week      |-> index + 1,
     weekStart |-> weeks[index + 1],
     weekEnd   |-> endOfWeek(weeks[index + 1]),
     amount    |-> WeekAmount(exps, weeks[index + 1]),
     average   |-> DDiv(DOfInt(RunningTotal(exps, weeks, index + 1)),
                        DOfInt(IF index = 0 THEN 1 ELSE index))]

\* the entry of the week with the zero-based index, after the running
\* average is filled in
WeeklyTrendEntry(exps, weeks, index) ==
    [week      |-> index + 1,
     weekStart |-> weeks[index + 1],
     weekEnd   |-> endOfWeek(weeks[index + 1]),
     amount    |-> WeekAmount(exps, weeks[index + 1]),
     average   |-> DDiv(DOfInt(RunningTotal(exps, weeks, index + 1)), DOfInt(index + 1))]

calculateWeeklyTrend(exps, startDate, endDate) ==
    LET weeks == eachWeekOfInterval(startDate, endDate)
    IN  [i \in 1..Len(weeks) |-> WeeklyTrendEntry(exps, weeks, i - 1)]

(***************************************************************************)
(* calculateIncomeVsExpenses                                               *)
(***************************************************************************)
\* Faulty variant: the window is the 6 months before the current month.
WindowMonthsBefore(current) ==
    [k \in 1..6 |-> MonthKey(NewDate(getYear(current), getMonth(current) - (6 - k) - 1, 1))]

\* the keys pushed by the loop for (let i = 5; i >= 0; i--)
WindowMonths(current) ==
    [k \in 1..6 |-> MonthKey(NewDate(getYear(current), getMonth(current) - (6 - k), 1))]

\* the entry pushed for one key of months
IncomeVsExpense(inc, exps, key) ==
    LET monthIncome   == SumAmounts(DatedWithin(inc, LAMBDA d : MonthKey(d) = key))
        monthExpenses == SumAmounts(DatedWithin(exps, LAMBDA d : MonthKey(d) = key))
        parts == SplitDash(key)
        date  == NewDate(ParseInt(parts[1]), ParseInt(parts[2]) - 1, 1)
        net   == monthIncome - monthExpenses
    IN  [period      |-> << FormatMMM(date), " " >> \o NumberToString(getYear(date)),
         income      |-> monthIncome,
         expenses    |-> monthExpenses,
         net         |-> net,
         savingsRate |-> IF monthIncome > 0
                         THEN DMul(DDiv(DOfInt(net), DOfInt(monthIncome)), DOfInt(100))
                         ELSE DZero]

calculateIncomeVsExpenses(inc, exps, current) ==
    LET months == WindowMonths(current)
    IN  [k \in 1..Len(months) |-> IncomeVsExpense(inc, exps, months[k])]

(***************************************************************************)
(* calculateDailySpending                                                  *)
(***************************************************************************)
SPENDING_INTENSITY == [LOW |-> 5000, MEDIUM |-> 10000, HIGH |-> 20000, VERY_HIGH |-> 30000]

\* Faulty variant: an amount equal to a threshold stays in the lower class.
SpendingIntensityInclusive(amount) ==
    IF amount > 0
    THEN IF amount <= SPENDING_INTENSITY.LOW THEN 1
         ELSE IF amount <= SPENDING_INTENSITY.MEDIUM THEN 2
         ELSE IF amount <= SPENDING_INTENSITY.HIGH THEN 3
         ELSE 4
    ELSE 0

SpendingIntensity(amount) ==
    IF amount > 0
    THEN IF amount < SPENDING_INTENSITY.LOW THEN 1
         ELSE IF amount < SPENDING_INTENSITY.MEDIUM THEN 2
         ELSE IF amount < SPENDING_INTENSITY.HIGH THEN 3
         ELSE 4
    ELSE 0

\* the body of days.map
DailySpendingOf(exps, day) ==
    LET dayExpenses ==
            DatedWithin(exps, LAMBDA d : /\ getYear(d) = getYear(day)
                                         /\ getMonth(d) = getMonth(day)
                                         /\ getDate(d) = getDate(day))
        amount == SumAmounts(dayExpenses)
    IN  [date |-> day, amount |-> amount, intensity |-> SpendingIntensity(amount)]

calculateDailySpending(exps, startDate, endDate) ==
    LET days == eachDayOfInterval(startDate, endDate)
    IN  [i \in 1..Len(days) |-> DailySpendingOf(exps, days[i])]

(***************************************************************************)
(* calculatePercentageChange and calculateMoMChange                        *)
(***************************************************************************)
\* Faulty variant: no previous total gives 0 whatever the current total is.
calculatePercentageChangeZero(current, previous) ==
    IF previous = 0 THEN DZero
    ELSE DMul(DDiv(DOfInt(current - previous), DOfInt(previous)), DOfInt(100))

calculatePercentageChange(current, previous) ==
    IF previous = 0 THEN (IF current > 0 THEN DOfInt(100) ELSE DZero)
    ELSE DMul(DDiv(DOfInt(current - previous), DOfInt(previous)), DOfInt(100))

calculateMoMChange(exps, current) ==
    LET currentMonth == DateRange(startOfMonth(current), endOfMonth(current))
        previous     == NewDate(getYear(current), getMonth(current) - 1, 1)
        lastMonth    == DateRange(startOfMonth(previous), endOfMonth(previous))
        currentTotal ==
            SumAmounts(DatedWithin(exps, LAMBDA d : /\ DateGe(d, currentMonth.start)
                                                    /\ DateLe(d, currentMonth.end)))
        lastTotal ==
            SumAmounts(DatedWithin(exps, LAMBDA d : /\ DateGe(d, lastMonth.start)
                                                    /\ DateLe(d, lastMonth.end)))
    IN  calculatePercentageChange(currentTotal, lastTotal)

(***************************************************************************)
(* calculateSavingsRate and getTopCategory                                 *)
(***************************************************************************)
\* Faulty variant: the rate of the expenses instead of the savings.
calculateSavingsRateOfExpenses(inc, exps) ==
    LET totalIncome == SumAmounts(inc)
    IN  IF totalIncome = 0 THEN DZero
        ELSE DMul(DDiv(DOfInt(SumAmounts(exps)), DOfInt(totalIncome)), DOfInt(100))

calculateSavingsRate(inc, exps) ==
    LET totalIncome == SumAmounts(inc)
    IN  IF totalIncome = 0 THEN DZero
        ELSE LET totalExpenses == SumAmounts(exps)
                 savings       == totalIncome - totalExpenses
             IN  DMul(DDiv(DOfInt(savings), DOfInt(totalIncome)), DOfInt(100))

\* Faulty variant: the last entry of the breakdown.
getTopCategoryLast(exps) ==
    LET breakdown == calculateCategoryBreakdown(exps)
    IN  IF Len(breakdown) > 0 THEN breakdown[Len(breakdown)] ELSE Null

getTopCategory(exps) ==
    LET breakdown == calculateCategoryBreakdown(exps)
    IN  IF Len(breakdown) > 0 THEN breakdown[1] ELSE Null

(***************************************************************************)
(* Categories: the built-in catalog, the custom category store and the     *)
(* lists of useCategories                                                  *)
(***************************************************************************)
CategoryConfig(id, name, icon, color, type, order) ==
    [id |-> id, name |-> name, icon |-> icon, color |-> color, type |-> type, order |-> order]

\* Object.entries(CATEGORIES): the configurations in the order of their keys
CATEGORIES ==
    << CategoryConfig("rent", "Rent", "Home", "#3B82F6", "fixed", 1),
       CategoryConfig("electricity", "Electricity", "Zap", "#EAB308", "fixed", 2),
       CategoryConfig("gas", "Gas", "Flame", "#F97316", "fixed", 3),
       CategoryConfig("wifi", "WiFi", "Wifi", "#8B5CF6", "fixed", 4),
       CategoryConfig("groceries", "Groceries", "ShoppingCart", "#22C55E", "fixed", 5),
       CategoryConfig("amazon", "Amazon", "Package", "#FB923C", "variable", 6),
       CategoryConfig("eating_out", "Eating Out", "Utensils", "#EF4444", "variable", 7),
       CategoryConfig("fuel", "Fuel", "Fuel", "#0EA5E9", "variable", 8),
       CategoryConfig("subscriptions", "Subscriptions", "RefreshCw", "#A855F7", "fixed", 9),
       CategoryConfig("travel", "Travel", "Plane", "#06B6D4", "variable", 10),
       CategoryConfig("miscellaneous", "Miscellaneous", "CreditCard", "#6B7280", "variable", 11) >>

\* the value of a lookup that finds nothing
Undefined == [undefined |-> TRUE]

\* a UnifiedCategory made of a configuration or of a custom category
UnifiedCategory(cat, isCustom) ==
    [id |-> cat.id, name |-> cat.name, icon |-> cat.icon, color |-> cat.color,
     type |-> cat.type, order |-> cat.order, isCustom |-> isCustom]

defaultCategoriesAsUnified ==
    [i \in 1..Len(CATEGORIES) |-> UnifiedCategory(CATEGORIES[i], FALSE)]

\* a stored custom category; isDeleted is FALSE while the field is not set
CustomCategory(id, category, order) ==
    [id |-> id, name |-> category.name, icon |-> category.icon, color |-> category.color,
     type |-> category.type, order |-> order, isDeleted |-> FALSE]

\* { ...record, ...updates }
Spread(record, updates) ==
    [f \in DOMAIN record |-> IF f \in DOMAIN updates THEN updates[f] ELSE record[f]]

\* array.find(Matches), and the index of array.findIndex(Matches), from 1,
\* or 0 when nothing matches
FindIndex(array, Matches(_)) ==
    IF \E i \in 1..Len(array) : Matches(array[i])
    THEN CHOOSE i \in 1..Len(array) :
             Matches(array[i]) /\ \A j \in 1..(i - 1) : ~Matches(array[j])
    ELSE 0

Find(array, Matches(_)) ==
    IF FindIndex(array, Matches) = 0 THEN Undefined ELSE array[FindIndex(array, Matches)]

\* x put behind every entry of the sorted list whose order is not greater
InsertByOrder(sorted, x) ==
    LET before == Len(SelectSeq(sorted, LAMBDA y : y.order <= x.order))
    IN  SubSeq(sorted, 1, before) \o <<x>> \o SubSeq(sorted, before + 1, Len(sorted))

\* sort((a, b) => a.order - b.order), and orderBy('order', 'asc')
RECURSIVE SortByOrder(_, _)
SortByOrder(list, i) ==
    IF i = 0 THEN <<>> ELSE InsertByOrder(SortByOrder(list, i - 1), list[i])

\* `custom-${Date.now()}` at the clock reading ms, counted from 1700000000000
DevCategoryId(ms) == "custom-170000000000" \o ToString(ms)

\* the ids addDoc can give to a new document
DocumentIds == {"q3ZrT8mWcX1aYb7LkP0e", "B9fHs2VdNu4JxQ6oGt5i", "Uw7EyK1pRz8MCa3vSn2h", "hD5gLj0XoF6TiW9rAe4c"}

\* the service deleteCustomCategory in development mode: the first record
\* with the id is marked
MarkFirstDeleted(store, id) ==
    LET index == FindIndex(store, LAMBDA c : c.id = id)
    IN  IF index = 0 THEN store ELSE [store EXCEPT ![index].isDeleted = TRUE]

\* the service updateCustomCategory: the first record with the id is merged
\* with the updates
UpdateFirst(store, id, updates) ==
    LET index == FindIndex(store, LAMBDA c : c.id = id)
    IN  IF index = 0 THEN store ELSE [store EXCEPT ![index] = Spread(store[index], updates)]

\* Faulty variant: the deleted category is dropped from the hook's state.
RemoveDeleted(prev, id) == SelectSeq(prev, LAMBDA c : c.id # id)

\* the state update of the hook's deleteCustomCategory
MarkDeleted(prev, id) ==
    [i \in 1..Len(prev) |-> IF prev[i].id = id THEN [prev[i] EXCEPT !.isDeleted = TRUE]
                            ELSE prev[i]]

\* the service getCustomCategories: the records of the user, by order
\* ascending in the Firestore query
getCustomCategories(store, devMode) ==
    IF devMode THEN store ELSE SortByOrder(store, Len(store))

activeCustomCategoriesOf(customs) == SelectSeq(customs, LAMBDA c : ~c.isDeleted)

allCategoriesIncludingDeletedOf(customs) ==
    LET customAsUnified == [i \in 1..Len(customs) |-> UnifiedCategory(customs[i], TRUE)]
        merged == defaultCategoriesAsUnified \o customAsUnified
    IN  SortByOrder(merged, Len(merged))

\* Faulty variant: the active list is built from all custom categories.
allCategoriesUnfilteredOf(customs) == allCategoriesIncludingDeletedOf(customs)

allCategoriesOf(customs) ==
    LET active == activeCustomCategoriesOf(customs)
        customAsUnified == [i \in 1..Len(active) |-> UnifiedCategory(active[i], TRUE)]
        merged == defaultCategoriesAsUnified \o customAsUnified
    IN  SortByOrder(merged, Len(merged))

getCategoryByIdIn(customs, id) ==
    Find(allCategoriesIncludingDeletedOf(customs), LAMBDA c : c.id = id)

getCategoryConfigIn(customs, id) ==
    IF \E i \in 1..Len(CATEGORIES) : CATEGORIES[i].id = id
    THEN Find(CATEGORIES, LAMBDA c : c.id = id)
    ELSE Find(customs, LAMBDA c : c.id = id)

\* the values of the forms that add and edit a custom category
NewCategoryChoices ==
    { [name |-> "Pets", icon |-> "Tag", color |-> "#10B981", type |-> "variable"],
      [name |-> "Gym", icon |-> "Star", color |-> "#F43F5E", type |-> "fixed"] }

UpdateChoices == { [name |-> "Renamed"], [color |-> "#000000", type |-> "fixed"] }

MaxCustomCategories == 2

MaxClock == 1

(***************************************************************************)
(* The goals of a user: the stored record and the service calls on it      *)
(***************************************************************************)
\* the fields of UserGoals that saveGoals sets from its arguments
UserGoals(allocations, monthlyIncomeTarget) ==
    [allocations |-> allocations, monthlyIncomeTarget |-> monthlyIncomeTarget]

getDefaultGoals == UserGoals(DEFAULT_GOAL_ALLOCATIONS, 500000)

\* getGoals: the stored record, or the defaults, which it stores, when there
\* is none
getGoals(store) == IF store = Null THEN getDefaultGoals ELSE store

\* Faulty variant: the allocations of the stored record whose category the new
\* list lacks are kept behind the new list.
saveGoalsMerging(store, allocations, monthlyIncomeTarget) ==
    LET kept == IF store = Null THEN <<>>
                ELSE SelectSeq(store.allocations,
                               LAMBDA old : \A i \in 1..Len(allocations) :
                                                allocations[i].category # old.category)
    IN  UserGoals(allocations \o kept, monthlyIncomeTarget)

\* saveGoals: the record stored afterwards
saveGoals(store, allocations, monthlyIncomeTarget) ==
    UserGoals(allocations, monthlyIncomeTarget)

\* allocations.map of updateAllocation
UpdatedAllocations(allocations, category, targetPercentage) ==
    [i \in 1..Len(allocations) |->
        IF allocations[i].category = category
        THEN [allocations[i] EXCEPT !.targetPercentage = targetPercentage]
        ELSE allocations[i]]

\* the arguments of the saveGoals calls
SaveChoices ==
    { UserGoals(<< Allocation("savings", 20), Allocation("needs", 50),
                   Allocation("investments", 30) >>, 600000),
      UserGoals(<< Allocation("needs", 60), Allocation("wants", 40) >>, 500000),
      UserGoals(<<>>, 0) }

\* the arguments of the updateAllocation calls
UpdateAllocationChoices ==
    { [category |-> "needs", targetPercentage |-> 45],
      [category |-> "savings", targetPercentage |-> 0],
      [category |-> "debt_repayment", targetPercentage |-> 10] }

MaxCalls == 4

MaxPendingUpdates == 1

VARIABLES
    goals,      \* useGoals: goals.allocations of the hook's state; with the goals
                \*   store the whole goals state, Null before the first fetch
    expenses,   \* options.expenses of either hook
    income,     \* options.income
    analytics,  \* useGoals: the memoised GoalsAnalytics, Null before it is computed
    savingsRate,        \* useAnalytics: the memoised savings rate, Null before it is computed
    categoryBreakdown,  \* useAnalytics: the memoised breakdown, Null before it is computed
    topCategory,        \* useAnalytics: the memoised top category, Null before it is computed
    now,                \* useAnalytics: the clock reading of the render (new Date())
    dateRange,          \* useAnalytics: options.dateRange
    monthlyTotals,      \* useAnalytics: the memoised trends over the full records,
    weeklyTrend,        \*   each Null before it is computed
    incomeVsExpenses,
    dailySpending,
    momChange,
    isDevMode,          \* firebase/config: development mode, with the mock store
    clock,              \* the reading of Date.now(), counted from 1700000000000
    storedCategories,   \* mockCategories, or the customCategories collection of the user
    customCategories,   \* useCategories: the customCategories state
    everAdded,          \* the ids addCustomCategory has returned so far
    storedGoals,        \* mockGoals, or the goals document of the user; Null when absent
    savedAllocations,   \* the list of the latest saveGoals since the start or the last
                        \*   resetGoals, Null when there was none
    pendingUpdates,     \* the updateAllocation calls between their read and their write
    lastCall,           \* the goals call that completed last, with what it returned or found
    calls,              \* the number of goals calls issued
    selectedPeriod,     \* the period passed to getPreviousPeriod, Null without a call
    previousPeriod,     \* the range getPreviousPeriod returned, Null before the call
    recomputed          \* the results of a second call of the aggregation functions
                        \*   with the inputs of the first, Null before it

vars ==
    <<goals, expenses, income, analytics, savingsRate, categoryBreakdown, topCategory,
      now, dateRange, monthlyTotals, weeklyTrend, incomeVsExpenses, dailySpending, momChange,
      isDevMode, clock, storedCategories, customCategories, everAdded,
      storedGoals, savedAllocations, pendingUpdates, lastCall, calls,
      selectedPeriod, previousPeriod, recomputed>>

periodVars == <<selectedPeriod, previousPeriod>>

\* getPreviousPeriod is not called
NoPeriod ==
    /\ selectedPeriod = Null
    /\ previousPeriod = Null

goalsStoreVars == <<storedGoals, savedAllocations, pendingUpdates, lastCall, calls>>

\* no call on the goals of the user has been issued
NoGoalsCalls ==
    /\ storedGoals = Null
    /\ savedAllocations = Null
    /\ pendingUpdates = << >>
    /\ lastCall = Null
    /\ calls = 0

categoryVars == <<isDevMode, clock, storedCategories, customCategories, everAdded>>

\* useCategories before its first fetch, over an empty store
NoCategories ==
    /\ clock = 0
    /\ storedCategories = << >>
    /\ customCategories = << >>
    /\ everAdded = {}

\* the memos of useAnalytics over the full records, and their parameters
trendMemos == <<monthlyTotals, weeklyTrend, incomeVsExpenses, dailySpending, momChange>>

trendVars == <<now, dateRange, trendMemos>>

\* no render of useAnalytics over the full records takes place
NoTrends ==
    /\ now = Null
    /\ dateRange = Null
    /\ monthlyTotals = Null
    /\ weeklyTrend = Null
    /\ incomeVsExpenses = Null
    /\ dailySpending = Null
    /\ momChange = Null

\* the memos of useAnalytics over the filtered records
filteredMemos == <<savingsRate, categoryBreakdown, topCategory>>

(***************************************************************************)
(* useGoals: the analytics memo over the inputs of one render              *)
(***************************************************************************)
Init ==
    /\ goals \in AllocationLists
    /\ expenses \in SeqsUpTo(ExpenseChoices, MaxExpenses)
    /\ income \in IncomeLists
    /\ analytics = Null
    /\ savingsRate = Null
    /\ categoryBreakdown = Null
    /\ topCategory = Null
    /\ NoTrends
    /\ isDevMode = TRUE
    /\ NoCategories
    /\ NoGoalsCalls
    /\ NoPeriod
    /\ recomputed = Null

\* the useMemo callback: progress, insights and score of the current inputs
ComputeAnalytics ==
    /\ analytics = Null
    /\ analytics' = GoalsAnalytics(goals, expenses, income)
    /\ UNCHANGED <<goals, expenses, income, filteredMemos, trendVars, categoryVars, goalsStoreVars, periodVars, recomputed>>

Next == ComputeAnalytics

Spec == Init /\ [][Next]_vars

(***************************************************************************)
(* useGoals: the analytics memo for spending at, just above and far above  *)
(* the targets, with and without income                                    *)
(***************************************************************************)
ScoreAllocationLists ==
    { << Allocation("needs", 55), Allocation("wants", 45) >>,
      << Allocation("wants", 7), Allocation("needs", 0), Allocation("savings", 93) >> }

ScoreExpenseChoices ==
    { Expense("rent", 55), Expense("groceries", 1), Expense("amazon", 21),
      Expense("fuel", 45) }

ScoreIncomeLists == { <<>>, << Income(100) >>, << Income(300) >> }

ScoreInit ==
    /\ goals \in ScoreAllocationLists
    /\ expenses \in SeqsUpTo(ScoreExpenseChoices, MaxExpenses)
    /\ income \in ScoreIncomeLists
    /\ analytics = Null
    /\ savingsRate = Null
    /\ categoryBreakdown = Null
    /\ topCategory = Null
    /\ NoTrends
    /\ isDevMode = TRUE
    /\ NoCategories
    /\ NoGoalsCalls
    /\ NoPeriod
    /\ recomputed = Null

ScoreSpec == ScoreInit /\ [][Next]_vars

(***************************************************************************)
(* useAnalytics: the memos over the filtered records, in the order of one  *)
(* render                                                                  *)
(***************************************************************************)
AnalyticsInit ==
    /\ goals = <<>>
    /\ expenses \in SeqsUpTo(AnalyticsExpenseChoices, MaxAnalyticsExpenses)
    /\ income \in IncomeLists
    /\ analytics = Null
    /\ savingsRate = Null
    /\ categoryBreakdown = Null
    /\ topCategory = Null
    /\ NoTrends
    /\ isDevMode = TRUE
    /\ NoCategories
    /\ NoGoalsCalls
    /\ NoPeriod
    /\ recomputed = Null

\* the useMemo callback of savingsRate
ComputeSavingsRate ==
    /\ savingsRate = Null
    /\ savingsRate' = [value |-> calculateSavingsRate(income, expenses)]
    /\ UNCHANGED <<goals, expenses, income, analytics, categoryBreakdown, topCategory, trendVars, categoryVars, goalsStoreVars, periodVars, recomputed>>

\* the useMemo callback of categoryBreakdown
ComputeCategoryBreakdown ==
    /\ savingsRate # Null
    /\ categoryBreakdown = Null
    /\ categoryBreakdown' = [entries |-> calculateCategoryBreakdown(expenses)]
    /\ UNCHANGED <<goals, expenses, income, analytics, savingsRate, topCategory, trendVars, categoryVars, goalsStoreVars, periodVars, recomputed>>

\* the useMemo callback of topCategory
ComputeTopCategory ==
    /\ categoryBreakdown # Null
    /\ topCategory = Null
    /\ topCategory' = [value |-> getTopCategory(expenses)]
    /\ UNCHANGED <<goals, expenses, income, analytics, savingsRate, categoryBreakdown, trendVars, categoryVars, goalsStoreVars, periodVars, recomputed>>

AnalyticsNext ==
    \/ ComputeSavingsRate
    \/ ComputeCategoryBreakdown
    \/ ComputeTopCategory

AnalyticsSpec == AnalyticsInit /\ [][AnalyticsNext]_vars

(***************************************************************************)
(* useAnalytics: the memos over the full records, in the order of one      *)
(* render                                                                  *)
(***************************************************************************)
MaxDatedExpenses == 2

DatedExpense(category, amount, date) ==
    [category |-> category, amount |-> amount, date |-> TimestampFromDate(date)]

DatedIncome(amount, date) == [amount |-> amount, date |-> TimestampFromDate(date)]

\* a time of day in milliseconds
TimeOfDay(h, m) == (h * 60 + m) * 60000

DatedExpenseChoices ==
    { DatedExpense("rent", 1000, DateTime(2023, 11, 31, MsPerDay - 1)),
      DatedExpense("groceries", 1500, DateTime(2024, 0, 1, 0)),
      DatedExpense("amazon", 5000, DateTime(2024, 0, 15, TimeOfDay(18, 30))),
      DatedExpense("eating_out", 5000, DateTime(2024, 0, 15, 0)),
      DatedExpense("rent", 4500, DateTime(2023, 6, 31, MsPerDay - 1)),
      DatedExpense("travel", 700, DateTime(2024, 1, 2, TimeOfDay(9, 0))),
      DatedExpense("fuel", 5000, DateTime(2024, 1, 29, TimeOfDay(8, 0))),
      DatedExpense("groceries", 20000, DateTime(2024, 2, 31, TimeOfDay(10, 0))) }

DatedIncomeLists ==
    { <<>>,
      << DatedIncome(200000, DateTime(2024, 0, 1, TimeOfDay(9, 0))) >>,
      << DatedIncome(3000, DateTime(2023, 7, 1, 0)),
         DatedIncome(1000, DateTime(2024, 2, 31, MsPerDay - 1)),
         DatedIncome(7000, DateTime(2023, 6, 31, TimeOfDay(12, 0))) >> }

\* the clock readings of a render
ClockReadings ==
    { DateTime(2024, 0, 15, TimeOfDay(12, 0)), DateTime(2024, 2, 31, MsPerDay - 1) }

\* the periods the pages pass to getDateRange for options.dateRange
PeriodChoices == {"week", "month"}

TrendInit ==
    /\ goals = <<>>
    /\ expenses \in SeqsUpTo(DatedExpenseChoices, MaxDatedExpenses)
    /\ income \in DatedIncomeLists
    /\ analytics = Null
    /\ savingsRate = Null
    /\ categoryBreakdown = Null
    /\ topCategory = Null
    /\ now \in ClockReadings
    /\ dateRange \in {getDateRange(period, now) : period \in PeriodChoices}
    /\ monthlyTotals = Null
    /\ weeklyTrend = Null
    /\ incomeVsExpenses = Null
    /\ dailySpending = Null
    /\ momChange = Null
    /\ isDevMode = TRUE
    /\ NoCategories
    /\ NoGoalsCalls
    /\ NoPeriod
    /\ recomputed = Null

\* the useMemo callback of monthlyTotals
ComputeMonthlyTotals ==
    /\ monthlyTotals = Null
    /\ monthlyTotals' = [entries |-> calculateMonthlyTotals(expenses)]
    /\ UNCHANGED <<goals, expenses, income, analytics, filteredMemos, now, dateRange,
                   weeklyTrend, incomeVsExpenses, dailySpending, momChange,
                   categoryVars, goalsStoreVars, periodVars, recomputed>>

\* the useMemo callback of weeklyTrend
ComputeWeeklyTrend ==
    /\ monthlyTotals # Null
    /\ weeklyTrend = Null
    /\ weeklyTrend' = [entries |-> calculateWeeklyTrend(expenses, dateRange.start, dateRange.end)]
    /\ UNCHANGED <<goals, expenses, income, analytics, filteredMemos, now, dateRange,
                   monthlyTotals, incomeVsExpenses, dailySpending, momChange,
                   categoryVars, goalsStoreVars, periodVars, recomputed>>

\* the useMemo callback of incomeVsExpenses
ComputeIncomeVsExpenses ==
    /\ weeklyTrend # Null
    /\ incomeVsExpenses = Null
    /\ incomeVsExpenses' = [entries |-> calculateIncomeVsExpenses(income, expenses, now)]
    /\ UNCHANGED <<goals, expenses, income, analytics, filteredMemos, now, dateRange,
                   monthlyTotals, weeklyTrend, dailySpending, momChange,
                   categoryVars, goalsStoreVars, periodVars, recomputed>>

\* the useMemo callback of dailySpending
ComputeDailySpending ==
    /\ incomeVsExpenses # Null
    /\ dailySpending = Null
    /\ dailySpending' =
           [entries |-> calculateDailySpending(expenses, dateRange.start, dateRange.end)]
    /\ UNCHANGED <<goals, expenses, income, analytics, filteredMemos, now, dateRange,
                   monthlyTotals, weeklyTrend, incomeVsExpenses, momChange,
                   categoryVars, goalsStoreVars, periodVars, recomputed>>

\* the useMemo callback of momChange
ComputeMoMChange ==
    /\ dailySpending # Null
    /\ momChange = Null
    /\ momChange' = [value |-> calculateMoMChange(expenses, now)]
    /\ UNCHANGED <<goals, expenses, income, analytics, filteredMemos, now, dateRange,
                   monthlyTotals, weeklyTrend, incomeVsExpenses, dailySpending,
                   categoryVars, goalsStoreVars, periodVars, recomputed>>

TrendNext ==
    \/ ComputeMonthlyTotals
    \/ ComputeWeeklyTrend
    \/ ComputeIncomeVsExpenses
    \/ ComputeDailySpending
    \/ ComputeMoMChange

TrendSpec == TrendInit /\ [][TrendNext]_vars

(***************************************************************************)
(* useCategories of a signed-in user whose calls follow one another: each  *)
(* action is one call of the hook with the service call and the state      *)
(* update it ends with                                                     *)
(***************************************************************************)
\* the other variables, which no category action changes
analyticsVars ==
    <<goals, expenses, income, analytics, filteredMemos, trendVars, goalsStoreVars, periodVars, recomputed>>

CategoriesInit ==
    /\ goals = <<>>
    /\ expenses = <<>>
    /\ income = <<>>
    /\ analytics = Null
    /\ savingsRate = Null
    /\ categoryBreakdown = Null
    /\ topCategory = Null
    /\ NoTrends
    /\ isDevMode \in BOOLEAN
    /\ NoCategories
    /\ NoGoalsCalls
    /\ NoPeriod
    /\ recomputed = Null

\* the memoised lists and lookups of the hook
activeCustomCategories == activeCustomCategoriesOf(customCategories)

allCategoriesIncludingDeleted == allCategoriesIncludingDeletedOf(customCategories)

allCategories == allCategoriesOf(customCategories)

getCategoryById(id) == getCategoryByIdIn(customCategories, id)

getCategoryConfig(id) == getCategoryConfigIn(customCategories, id)

\* the ids a caller passes: those of the stored records, a built-in id and an
\* id no record has
IdChoices ==
    {storedCategories[i].id : i \in 1..Len(storedCategories)} \cup {"rent", "custom-0"}

\* some milliseconds pass
Tick ==
    /\ isDevMode
    /\ clock < MaxClock
    /\ clock' = clock + 1
    /\ UNCHANGED <<analyticsVars, isDevMode, storedCategories, customCategories, everAdded>>

\* refresh, and the fetch on mount: fetchCustomCategories
Refresh ==
    /\ customCategories' = getCustomCategories(storedCategories, isDevMode)
    /\ UNCHANGED <<analyticsVars, isDevMode, clock, storedCategories, everAdded>>

\* addCustomCategory(category): the service call, then fetchCustomCategories
AddCustomCategory ==
    /\ Len(storedCategories) < MaxCustomCategories
    /\ \E category \in NewCategoryChoices :
       \E id \in IF isDevMode THEN {DevCategoryId(clock)}
                 ELSE DocumentIds \ {storedCategories[i].id : i \in 1..Len(storedCategories)} :
           /\ storedCategories' =
                  Append(storedCategories,
                         CustomCategory(id, category, Len(storedCategories) + 100))
           /\ customCategories' = getCustomCategories(storedCategories', isDevMode)
           /\ everAdded' = everAdded \cup {id}
    /\ UNCHANGED <<analyticsVars, isDevMode, clock>>

\* updateCustomCategory(id, updates): the service call, then
\* fetchCustomCategories; updateDoc rejects for a document that does not exist
\* and the hook then leaves its state as it is
UpdateCustomCategory ==
    /\ \E id \in IdChoices, updates \in UpdateChoices :
           LET exists == \E i \in 1..Len(storedCategories) : storedCategories[i].id = id
           IN  IF isDevMode \/ exists
               THEN /\ storedCategories' = UpdateFirst(storedCategories, id, updates)
                    /\ customCategories' = getCustomCategories(storedCategories', isDevMode)
               ELSE UNCHANGED <<storedCategories, customCategories>>
    /\ UNCHANGED <<analyticsVars, isDevMode, clock, everAdded>>

\* deleteCustomCategory(id): the service call, then the flag is set in the
\* hook's state
DeleteCustomCategory ==
    /\ \E id \in IdChoices :
           LET exists == \E i \in 1..Len(storedCategories) : storedCategories[i].id = id
           IN  IF isDevMode \/ exists
               THEN /\ storedCategories' = MarkFirstDeleted(storedCategories, id)
                    /\ customCategories' = MarkDeleted(customCategories, id)
               ELSE UNCHANGED <<storedCategories, customCategories>>
    /\ UNCHANGED <<analyticsVars, isDevMode, clock, everAdded>>

CategoriesNext ==
    \/ Tick
    \/ Refresh
    \/ AddCustomCategory
    \/ UpdateCustomCategory
    \/ DeleteCustomCategory

CategoriesSpec == CategoriesInit /\ [][CategoriesNext]_vars

(***************************************************************************)
(* The goals of a signed-in user: the service calls getGoals, saveGoals and *)
(* resetGoals, each as one step; the service updateAllocation as its read  *)
(* (getGoals) and its write (saveGoals), between which other calls take    *)
(* effect; and the hook's fetchGoals and updateAllocation, which works on   *)
(* the goals state of the last fetch                                       *)
(***************************************************************************)
GoalsStoreInit ==
    /\ goals = Null
    /\ expenses = <<>>
    /\ income = <<>>
    /\ analytics = Null
    /\ savingsRate = Null
    /\ categoryBreakdown = Null
    /\ topCategory = Null
    /\ NoTrends
    /\ isDevMode \in BOOLEAN
    /\ NoCategories
    /\ NoGoalsCalls
    /\ NoPeriod
    /\ recomputed = Null

\* the variables no goals call changes
goalsFrame ==
    <<expenses, income, analytics, filteredMemos, trendVars, categoryVars, periodVars, recomputed>>

\* getGoals(userId)
GetGoals ==
    /\ calls < MaxCalls
    /\ calls' = calls + 1
    /\ storedGoals' = getGoals(storedGoals)
    /\ lastCall' = [name |-> "getGoals", returned |-> storedGoals']
    /\ UNCHANGED <<goals, savedAllocations, pendingUpdates, goalsFrame>>

\* saveGoals(userId, allocations, monthlyIncomeTarget)
SaveGoals ==
    /\ calls < MaxCalls
    /\ calls' = calls + 1
    /\ \E choice \in SaveChoices :
           /\ storedGoals' = saveGoals(storedGoals, choice.allocations,
                                       choice.monthlyIncomeTarget)
           /\ savedAllocations' = [value |-> choice.allocations]
    /\ lastCall' = [name |-> "saveGoals"]
    /\ UNCHANGED <<goals, pendingUpdates, goalsFrame>>

\* resetGoals(userId)
ResetGoals ==
    /\ calls < MaxCalls
    /\ calls' = calls + 1
    /\ storedGoals' = getDefaultGoals
    /\ savedAllocations' = Null
    /\ lastCall' = [name |-> "resetGoals"]
    /\ UNCHANGED <<goals, pendingUpdates, goalsFrame>>

\* the service updateAllocation(userId, category, targetPercentage) up to the
\* end of its getGoals
UpdateAllocationRead ==
    /\ calls < MaxCalls
    /\ calls' = calls + 1
    /\ Len(pendingUpdates) < MaxPendingUpdates
    /\ storedGoals' = getGoals(storedGoals)
    /\ \E choice \in UpdateAllocationChoices :
           pendingUpdates' =
               Append(pendingUpdates,
                      [category |-> choice.category,
                       targetPercentage |-> choice.targetPercentage,
                       goals |-> storedGoals'])
    /\ lastCall' = [name |-> "getGoals", returned |-> storedGoals']
    /\ UNCHANGED <<goals, savedAllocations, goalsFrame>>

\* the rest of the service updateAllocation: the map over the goals it read
\* and saveGoals
UpdateAllocationWrite ==
    /\ \E i \in 1..Len(pendingUpdates) :
           LET call == pendingUpdates[i]
               updatedAllocations ==
                   UpdatedAllocations(call.goals.allocations, call.category,
                                      call.targetPercentage)
           IN  /\ storedGoals' = saveGoals(storedGoals, updatedAllocations,
                                           call.goals.monthlyIncomeTarget)
               /\ savedAllocations' = [value |-> updatedAllocations]
               /\ lastCall' = [name |-> "updateAllocation", category |-> call.category,
                               targetPercentage |-> call.targetPercentage,
                               before |-> storedGoals]
               /\ pendingUpdates' =
                      SubSeq(pendingUpdates, 1, i - 1)
                          \o SubSeq(pendingUpdates, i + 1, Len(pendingUpdates))
    /\ UNCHANGED <<goals, calls, goalsFrame>>

\* the hook's fetchGoals (on mount, and refresh)
FetchGoals ==
    /\ calls < MaxCalls
    /\ calls' = calls + 1
    /\ storedGoals' = getGoals(storedGoals)
    /\ goals' = storedGoals'
    /\ lastCall' = [name |-> "getGoals", returned |-> storedGoals']
    /\ UNCHANGED <<savedAllocations, pendingUpdates, goalsFrame>>

\* the hook's updateAllocation(category, percentage): the map over the goals
\* state, the hook's saveGoals and its fetchGoals
HookUpdateAllocation ==
    /\ calls < MaxCalls
    /\ calls' = calls + 1
    /\ goals # Null
    /\ \E choice \in UpdateAllocationChoices :
           LET updatedAllocations ==
                   UpdatedAllocations(goals.allocations, choice.category,
                                      choice.targetPercentage)
           IN  /\ storedGoals' = saveGoals(storedGoals, updatedAllocations,
                                           goals.monthlyIncomeTarget)
               /\ savedAllocations' = [value |-> updatedAllocations]
               /\ lastCall' = [name |-> "updateAllocation", category |-> choice.category,
                               targetPercentage |-> choice.targetPercentage,
                               before |-> storedGoals]
    /\ goals' = getGoals(storedGoals')
    /\ UNCHANGED <<pendingUpdates, goalsFrame>>

GoalsStoreNext ==
    \/ GetGoals
    \/ SaveGoals
    \/ ResetGoals
    \/ UpdateAllocationRead
    \/ UpdateAllocationWrite
    \/ FetchGoals
    \/ HookUpdateAllocation

GoalsStoreSpec == GoalsStoreInit /\ [][GoalsStoreNext]_vars

(***************************************************************************)
(* getPreviousPeriod over the periods and the reference dates              *)
(***************************************************************************)
\* TimePeriod
TimePeriod == {"week", "month", "quarter", "year", "custom"}

\* the reference dates: the days from 1 December 2023 on, at midnight, in the
\* afternoon and in the last millisecond
MaxReferenceDays == 190

ReferenceDates ==
    { Date(NewDate(2023, 11, 1).day + i, ms) :
          i \in 0..(MaxReferenceDays - 1), ms \in {0, TimeOfDay(15, 45), MsPerDay - 1} }

PeriodInit ==
    /\ goals = <<>>
    /\ expenses = <<>>
    /\ income = <<>>
    /\ analytics = Null
    /\ savingsRate = Null
    /\ categoryBreakdown = Null
    /\ topCategory = Null
    /\ now \in ReferenceDates
    /\ dateRange = Null
    /\ monthlyTotals = Null
    /\ weeklyTrend = Null
    /\ incomeVsExpenses = Null
    /\ dailySpending = Null
    /\ momChange = Null
    /\ isDevMode = TRUE
    /\ NoCategories
    /\ NoGoalsCalls
    /\ selectedPeriod \in {[value |-> p] : p \in TimePeriod}
    /\ previousPeriod = Null
    /\ recomputed = Null

\* getPreviousPeriod(period, referenceDate)
ComputePreviousPeriod ==
    /\ previousPeriod = Null
    /\ previousPeriod' = getPreviousPeriod(selectedPeriod.value, now)
    /\ UNCHANGED <<goals, expenses, income, analytics, filteredMemos, trendVars,
                   categoryVars, goalsStoreVars, selectedPeriod, recomputed>>

PeriodNext == ComputePreviousPeriod

PeriodSpec == PeriodInit /\ [][PeriodNext]_vars

(***************************************************************************)
(* The aggregation functions called twice with the same lists and          *)
(* parameters, the clock going on between the calls                        *)
(***************************************************************************)
\* the results of the aggregation functions for the lists inc and exps and
\* the range, called at the clock reading current
Aggregations(inc, exps, range, current) ==
    [totalExpenses     |-> SumAmounts(exps),
     totalIncome       |-> SumAmounts(inc),
     savingsRate       |-> calculateSavingsRate(inc, exps),
     categoryBreakdown |-> calculateCategoryBreakdown(exps),
     monthlyTotals     |-> calculateMonthlyTotals(exps),
     weeklyTrend       |-> calculateWeeklyTrend(exps, range.start, range.end),
     incomeVsExpenses  |-> calculateIncomeVsExpenses(inc, exps, current),
     dailySpending     |-> calculateDailySpending(exps, range.start, range.end),
     momChange         |-> calculateMoMChange(exps, current)]

RepeatInit ==
    /\ goals = <<>>
    /\ expenses \in SeqsUpTo(DatedExpenseChoices, MaxDatedExpenses)
    /\ income \in DatedIncomeLists
    /\ analytics = Null
    /\ savingsRate = Null
    /\ categoryBreakdown = Null
    /\ topCategory = Null
    /\ now \in ClockReadings
    /\ dateRange \in {getDateRange(timePeriod, now) : timePeriod \in PeriodChoices}
    /\ monthlyTotals = Null
    /\ weeklyTrend = Null
    /\ incomeVsExpenses = Null
    /\ dailySpending = Null
    /\ momChange = Null
    /\ isDevMode = TRUE
    /\ NoCategories
    /\ NoGoalsCalls
    /\ NoPeriod
    /\ recomputed = Null

\* the first call of each function
CallAggregations ==
    /\ momChange = Null
    /\ analytics' = [totalExpenses |-> SumAmounts(expenses),
                     totalIncome |-> SumAmounts(income)]
    /\ savingsRate' = [value |-> calculateSavingsRate(income, expenses)]
    /\ categoryBreakdown' = [entries |-> calculateCategoryBreakdown(expenses)]
    /\ monthlyTotals' = [entries |-> calculateMonthlyTotals(expenses)]
    /\ weeklyTrend' =
           [entries |-> calculateWeeklyTrend(expenses, dateRange.start, dateRange.end)]
    /\ incomeVsExpenses' = [entries |-> calculateIncomeVsExpenses(income, expenses, now)]
    /\ dailySpending' =
           [entries |-> calculateDailySpending(expenses, dateRange.start, dateRange.end)]
    /\ momChange' = [value |-> calculateMoMChange(expenses, now)]
    /\ UNCHANGED <<goals, expenses, income, topCategory, now, dateRange,
                   categoryVars, goalsStoreVars, periodVars, recomputed>>

\* time passes between the calls
ClockAdvances ==
    /\ momChange # Null
    /\ recomputed = Null
    /\ now' \in {later \in ClockReadings : DateLe(now, later) /\ later # now}
    /\ UNCHANGED <<goals, expenses, income, analytics, filteredMemos, dateRange, trendMemos,
                   categoryVars, goalsStoreVars, periodVars, recomputed>>

\* the second call of each function, with the lists and the range of the first
CallAggregationsAgain ==
    /\ momChange # Null
    /\ recomputed = Null
    /\ recomputed' = Aggregations(income, expenses, dateRange, now)
    /\ UNCHANGED <<goals, expenses, income, analytics, filteredMemos, trendVars,
                   categoryVars, goalsStoreVars, periodVars>>

RepeatNext ==
    \/ CallAggregations
    \/ ClockAdvances
    \/ CallAggregationsAgain

RepeatSpec == RepeatInit /\ [][RepeatNext]_vars

(***************************************************************************)
(* Properties                                                              *)
(***************************************************************************)
Computed == analytics # Null

SpendDown == {"needs", "wants"}

Accumulation == {"savings", "investments", "debt_repayment", "emergency_fund"}

\* 100 times the exact target amount of record p: totalIncome * targetPercentage
Target100(p) == analytics.totalIncome * p.targetPercentage

\* the sum of the amounts of the first i records of s
RECURSIVE TotalUpTo(_, _)
TotalUpTo(s, i) == IF i = 0 THEN 0 ELSE TotalUpTo(s, i - 1) + s[i].amount

Total(s) == TotalUpTo(s, Len(s))

\* the sum of the amounts of the records of s that satisfy Keep
TotalWhere(s, Keep(_)) == Total(SelectSeq(s, Keep))

\* C1: a needs or wants record is 'ahead' exactly when actualAmount is below
\* 0.8 of the target amount, 'on_track' exactly from 0.8 of the target up to
\* the target, 'behind' exactly above the target; income 200000 with needs at
\* 50% and needs spending 90000 gives target 100000 and 'on_track'.
SpendDownStatus ==
    Computed =>
        \A i \in 1..Len(analytics.progress) :
            LET p == analytics.progress[i]
                a == p.actualAmount
            IN  p.category \in SpendDown =>
                    /\ (p.status = "ahead") <=> (125 * a < Target100(p))
                    /\ (p.status = "on_track") <=>
                           (125 * a >= Target100(p) /\ 100 * a <= Target100(p))
                    /\ (p.status = "behind") <=> (100 * a > Target100(p))
                    /\ Target100(p) % 100 = 0 =>
                           p.targetAmount = DOfInt(Target100(p) \div 100)
                    /\ (analytics.totalIncome = 200000 /\ p.targetPercentage = 50
                            /\ a = 90000) =>
                           (p.targetAmount = DOfInt(100000) /\ p.status = "on_track")

\* income 200000, needs at 50%, needs spending 90000: on_track
SpendDownStatusWitness ==
    /\ Computed
    /\ analytics.totalIncome = 200000
    /\ \E i \in 1..Len(analytics.progress) :
           LET p == analytics.progress[i]
           IN  /\ p.category = "needs" /\ p.targetPercentage = 50
               /\ p.actualAmount = 90000 /\ p.status = "on_track"

\* C2: a savings, investments, debt_repayment or emergency_fund record is
\* 'behind' exactly when actualAmount is below 0.9 of the target amount,
\* 'on_track' exactly from 0.9 up to, but not including, 1.1 of the target,
\* and 'ahead' exactly from 1.1 of the target on.
AccumulationStatus ==
    Computed =>
        \A i \in 1..Len(analytics.progress) :
            LET p == analytics.progress[i]
                a == p.actualAmount
            IN  p.category \in Accumulation =>
                    /\ (p.status = "behind") <=> (1000 * a < 9 * Target100(p))
                    /\ (p.status = "on_track") <=>
                           (1000 * a >= 9 * Target100(p) /\ 1000 * a < 11 * Target100(p))
                    /\ (p.status = "ahead") <=> (1000 * a >= 11 * Target100(p))

\* C6: the savings record reports max(0, totalIncome - total expenses), and
\* the investments, debt_repayment and emergency_fund records report 0.
ResidualSavings ==
    Computed =>
        \A i \in 1..Len(analytics.progress) :
            LET p == analytics.progress[i]
            IN  /\ p.category = "savings" =>
                       p.actualAmount = MaxOf(0, Total(income) - Total(expenses))
                /\ p.category \in Accumulation \ {"savings"} => p.actualAmount = 0

\* expenses exceed a positive income: savings are reported as 0, not negative
ResidualSavingsWitness ==
    /\ Computed
    /\ Total(income) > 0
    /\ Total(expenses) > Total(income)
    /\ \E i \in 1..Len(analytics.progress) :
           analytics.progress[i].category = "savings"
               /\ analytics.progress[i].actualAmount = 0
    /\ \E i \in 1..Len(analytics.progress) :
           analytics.progress[i].category = "investments"
               /\ analytics.progress[i].actualAmount = 0

\* C7: rent, electricity, gas, wifi and groceries map to needs and every
\* other category id to wants; so the needs record carries the spending in
\* those five categories and the wants record all the other spending.
ExpenseClassification ==
    /\ \A id \in CategoryIds :
           mapExpenseToGoalCategory(id) =
               IF id \in {"rent", "electricity", "gas", "wifi", "groceries"}
               THEN "needs" ELSE "wants"
    /\ Computed =>
           \A i \in 1..Len(analytics.progress) :
               LET p == analytics.progress[i]
                   IsNeed(e) == e.category \in {"rent", "electricity", "gas", "wifi", "groceries"}
               IN  /\ p.category = "needs" =>
                          p.actualAmount = TotalWhere(expenses, IsNeed)
                   /\ p.category = "wants" =>
                          p.actualAmount =
                              TotalWhere(expenses, LAMBDA e : ~IsNeed(e))

\* an expense in a category of neither table is counted as wants
ExpenseClassificationWitness ==
    /\ Computed
    /\ \E j \in 1..Len(expenses) : expenses[j].category = "fuel"
    /\ \E j \in 1..Len(expenses) : expenses[j].category = "groceries"
    /\ \E i \in 1..Len(analytics.progress) :
           analytics.progress[i].category = "wants"
               /\ analytics.progress[i].actualAmount = 820

\* |x - y| <= tol, compared exactly
Near(x, y, tol) ==
    LET d == XSub(x, y)
    IN  DLe(IF d.neg THEN DNeg(d) ELSE d, tol)

\* the allowance for binary64 rounding in a score: 2^-40
RoundingTolerance == [neg |-> FALSE, m |-> <<1>>, e |-> -40]

\* C3: the category score of a needs or wants record is 100 when
\* actualPercentage <= targetPercentage and otherwise
\* max(0, 100 - 5 * (actualPercentage - targetPercentage)), up to binary64
\* rounding; exactly at target it is 100, 20 or more points over target it is
\* 0, and it is never negative.
SpendDownScore ==
    Computed =>
        \A i \in 1..Len(analytics.progress) :
            LET p     == analytics.progress[i]
                ap    == p.actualPercentage
                tp    == DOfInt(p.targetPercentage)
                score == CategoryScore(p)
                exact == XSub(DOfInt(100 + 5 * p.targetPercentage), XMul(DOfInt(5), ap))
            IN  p.category \in SpendDown =>
                    /\ ~score.neg
                    /\ DLe(ap, tp) => score = DOfInt(100)
                    /\ DGe(ap, DOfInt(p.targetPercentage + 20)) => score = DZero
                    /\ DGt(ap, tp) =>
                           Near(score, IF exact.neg THEN DZero ELSE exact, RoundingTolerance)

\* one record exactly at target scores 100 and one far over target scores 0
SpendDownScoreWitness ==
    /\ Computed
    /\ \E i \in 1..Len(analytics.progress) :
           LET p == analytics.progress[i]
           IN  /\ p.category = "needs" /\ p.actualAmount > 0
               /\ p.actualPercentage = DOfInt(p.targetPercentage)
               /\ CategoryScore(p) = DOfInt(100)
    /\ \E i \in 1..Len(analytics.progress) :
           LET p == analytics.progress[i]
           IN  /\ p.category = "wants"
               /\ DGe(p.actualPercentage, DOfInt(p.targetPercentage + 20))
               /\ CategoryScore(p) = DZero

\* C4: the category score of a savings, investments, debt_repayment or
\* emergency_fund record is min(100, actualPercentage / targetPercentage * 100)
\* when targetPercentage > 0, up to binary64 rounding (exactly 50 at half of
\* the target, exactly 100 at or above the target), and 100 when
\* targetPercentage is 0, whatever actualPercentage is.
AccumulationScore ==
    Computed =>
        \A i \in 1..Len(analytics.progress) :
            LET p     == analytics.progress[i]
                ap    == p.actualPercentage
                tp    == DOfInt(p.targetPercentage)
                score == CategoryScore(p)
            IN  p.category \in Accumulation =>
                    /\ p.targetPercentage = 0 => score = DOfInt(100)
                    /\ (p.targetPercentage > 0 /\ DGe(ap, tp)) => score = DOfInt(100)
                    /\ (p.targetPercentage > 0 /\ XMul(DOfInt(2), ap) = tp) =>
                           score = DOfInt(50)
                    /\ (p.targetPercentage > 0 /\ DLt(ap, tp)) =>
                           Near(XMul(score, tp), XMul(DOfInt(100), ap),
                                XMul(RoundingTolerance, tp))

\* a savings record with target 0 and a positive actual percentage scores 100
AccumulationScoreWitness ==
    /\ Computed
    /\ \E i \in 1..Len(analytics.progress) :
           LET p == analytics.progress[i]
           IN  /\ p.category = "savings" /\ p.targetPercentage = 0
               /\ DGt(p.actualPercentage, DZero)
               /\ CategoryScore(p) = DOfInt(100)

\* the exact sum of the category scores of the first i records
RECURSIVE ExactTotalScore(_, _)
ExactTotalScore(progress, i) ==
    IF i = 0 THEN DZero
    ELSE XAdd(ExactTotalScore(progress, i - 1), CategoryScore(progress[i]))

\* C5: the overall score is an integer from 0 to 100, equal to the arithmetic
\* mean of the category scores rounded to the nearest integer (the mean taken
\* up to binary64 rounding), and it is 0 for the empty list.
OverallScoreIsRoundedMean ==
    Computed =>
        LET n == Len(analytics.progress)
            s == analytics.overallScore
            total == ExactTotalScore(analytics.progress, n)
        IN  /\ s \in 0..100
            /\ n = 0 => s = 0
            /\ n > 0 => Near(XMul(DOfInt(2), total), DOfInt(2 * n * s),
                             XAdd(DOfInt(n), RoundingTolerance))

\* several records whose mean score is not an integer and rounds up
OverallScoreWitness ==
    /\ Computed
    /\ Len(analytics.progress) >= 3
    /\ LET n == Len(analytics.progress)
           total == ExactTotalScore(analytics.progress, n)
       IN  DGt(DOfInt(n * analytics.overallScore), total)

\* the records of progress that get a per-category insight
Flagged(progress) == SelectSeq(progress, LAMBDA p : p.status # "on_track")

\* C8: in the order of the progress list there is exactly one 'warning'
\* insight for each record that is 'behind', exactly one 'success' insight for
\* each record that is 'ahead', none for a record that is 'on_track', and each
\* of them carries the record's category.
PerCategoryInsightRule ==
    Computed =>
        LET flagged == Flagged(analytics.progress)
            ins     == analytics.insights
        IN  /\ Len(ins) >= Len(flagged)
            /\ \A i \in 1..Len(flagged) :
                   /\ ins[i].category = flagged[i].category
                   /\ ins[i].type =
                          IF flagged[i].status = "behind" THEN "warning" ELSE "success"
            /\ \A i \in (Len(flagged) + 1)..Len(ins) : ins[i].category = NoCategory

\* a list with a behind, an on_track and an ahead record, the on_track one
\* between the other two
PerCategoryInsightWitness ==
    /\ Computed
    /\ \E i, j, k \in 1..Len(analytics.progress) :
           /\ i < j /\ j < k
           /\ analytics.progress[i].status = "behind"
           /\ analytics.progress[j].status = "on_track"
           /\ analytics.progress[k].status = "ahead"
    /\ Len(analytics.insights) >= 2
    /\ analytics.insights[1].type = "warning"
    /\ analytics.insights[2].type = "success"

\* C9: after the per-category insights there is at most one insight without
\* a category, the last element: a 'success' when no record is 'behind',
\* otherwise a 'tip' when the records that are not 'behind' are at least 70%
\* of the records, otherwise none.
AggregateInsightRule ==
    Computed =>
        LET progress  == analytics.progress
            ins       == analytics.insights
            n         == Len(progress)
            notBehind == Len(SelectSeq(progress, LAMBDA p : p.status # "behind"))
            aggregate == SelectSeq(ins, LAMBDA x : x.category = NoCategory)
        IN  /\ Len(aggregate) <= 1
            /\ Len(aggregate) = 1 => ins[Len(ins)].category = NoCategory
            /\ notBehind = n => (Len(aggregate) = 1 /\ aggregate[1].type = "success")
            /\ (notBehind < n /\ 10 * notBehind >= 7 * n) =>
                   (Len(aggregate) = 1 /\ aggregate[1].type = "tip")
            /\ 10 * notBehind < 7 * n => aggregate = << >>

\* three of four records are not behind: a tip closes the list
AggregateInsightWitness ==
    /\ Computed
    /\ Len(analytics.progress) = 4
    /\ Len(SelectSeq(analytics.progress, LAMBDA p : p.status # "behind")) = 3
    /\ analytics.insights[Len(analytics.insights)].type = "tip"

BreakdownComputed == categoryBreakdown # Null

\* the percentages of the first i entries added up as numbers, in list order
RECURSIVE PercentageSum(_, _)
PercentageSum(entries, i) ==
    IF i = 0 THEN DZero ELSE DAdd(PercentageSum(entries, i - 1), entries[i].percentage)

RECURSIVE CountSum(_, _)
CountSum(entries, i) ==
    IF i = 0 THEN 0 ELSE CountSum(entries, i - 1) + entries[i].count

\* the part of C10 that does not concern the sum of the percentages: no
\* entry for a total of 0; otherwise one entry per category of the input, with
\* its amount, its count and its share of the total (up to binary64 rounding),
\* the amounts adding up to the total and the counts to the number of records
BreakdownEntries ==
    LET entries == categoryBreakdown.entries
        total   == Total(expenses)
    IN  /\ total = 0 => entries = << >>
        /\ total > 0 =>
               /\ \A i, j \in 1..Len(entries) :
                      entries[i].category = entries[j].category => i = j
               /\ {entries[i].category : i \in 1..Len(entries)}
                      = {expenses[k].category : k \in 1..Len(expenses)}
               /\ \A i \in 1..Len(entries) :
                      LET InCategory(e) == e.category = entries[i].category
                      IN  /\ entries[i].amount = TotalWhere(expenses, InCategory)
                          /\ entries[i].count = Len(SelectSeq(expenses, InCategory))
                          /\ Near(XMul(entries[i].percentage, DOfInt(total)),
                                  DOfInt(100 * entries[i].amount),
                                  XMul(RoundingTolerance, DOfInt(total)))
               /\ Total(entries) = total
               /\ CountSum(entries, Len(entries)) = Len(expenses)

\* C10 as stated: for a total above 0 the percentages add up to 100.
BreakdownPercentagesSumTo100 ==
    BreakdownComputed =>
        /\ BreakdownEntries
        /\ Total(expenses) > 0 =>
               PercentageSum(categoryBreakdown.entries, Len(categoryBreakdown.entries))
                   = DOfInt(100)

\* C10 amended: for a total above 0 the percentages add up to 100 up to
\* binary64 rounding (within 2^-40).
BreakdownPercentagesSumNear100 ==
    BreakdownComputed =>
        /\ BreakdownEntries
        /\ Total(expenses) > 0 =>
               Near(PercentageSum(categoryBreakdown.entries, Len(categoryBreakdown.entries)),
                    DOfInt(100), RoundingTolerance)

\* rent 10000, groceries 20000, rent 5000: two entries, rent with amount 15000
\* and count 2, groceries with amount 20000 and count 1
BreakdownWitness ==
    /\ BreakdownComputed
    /\ expenses = << Expense("rent", 10000), Expense("groceries", 20000),
                     Expense("rent", 5000) >>
    /\ Len(categoryBreakdown.entries) = 2
    /\ \E i \in 1..2 :
           LET r == categoryBreakdown.entries[i]
           IN  r.category = "rent" /\ r.amount = 15000 /\ r.count = 2
    /\ \E i \in 1..2 :
           LET g == categoryBreakdown.entries[i]
           IN  g.category = "groceries" /\ g.amount = 20000 /\ g.count = 1
\* C11: the breakdown is ordered by amount descending, and the top category is
\* its first entry, whose amount is the largest of all categories, or null
\* when the breakdown is empty.
TopCategoryIsLargest ==
    topCategory # Null =>
        LET entries == categoryBreakdown.entries
            top     == topCategory.value
        IN  /\ \A i, j \in 1..Len(entries) :
                   i < j => entries[i].amount >= entries[j].amount
            /\ entries = << >> <=> top = Null
            /\ entries # << >> =>
                   /\ top = entries[1]
                   /\ \A k \in 1..Len(expenses) :
                          LET InCategory(e) == e.category = expenses[k].category
                          IN  top.amount >= TotalWhere(expenses, InCategory)

\* amazon 5000, rent 10000, groceries 20000: the category recorded last is on top
TopCategoryWitness ==
    /\ topCategory # Null
    /\ expenses = << Expense("amazon", 5000), Expense("rent", 10000),
                     Expense("groceries", 20000) >>
    /\ topCategory.value.category = "groceries"
    /\ topCategory.value.amount = 20000
    /\ categoryBreakdown.entries[3].category = "amazon"

\* C12: the savings rate is exactly 0 when the total income is 0, whatever the
\* expenses; otherwise it is (totalIncome - totalExpenses) / totalIncome * 100
\* up to binary64 rounding, negative exactly when the expenses exceed the income.
SavingsRateRule ==
    savingsRate # Null =>
        LET rate == savingsRate.value
            ti   == Total(income)
            te   == Total(expenses)
        IN  /\ ti = 0 => rate = DZero
            /\ ti # 0 =>
                   /\ Near(XMul(rate, DOfInt(ti)), DOfInt(100 * (ti - te)),
                           XMul(RoundingTolerance, DOfInt(ti)))
                   /\ rate.neg <=> te > ti
                   /\ rate = DZero <=> te = ti

\* expenses without income give the rate 0
SavingsRateZeroIncomeWitness ==
    /\ savingsRate # Null
    /\ Total(income) = 0
    /\ Total(expenses) > 0
    /\ savingsRate.value = DZero

\* the calendar month of a record, counted in months: 12 * year + month index
MonthOf(r) == LET c == CivilFromDays(r.date.day) IN 12 * c.year + c.month

\* the calendar month of the clock reading
CurrentMonth == LET c == CivilFromDays(now.day) IN 12 * c.year + c.month

\* the total of the records of s dated in the calendar month m
MonthTotal(s, m) == TotalWhere(s, LAMBDA r : MonthOf(r) = m)

\* C13: the month-over-month change compares the expenses of the current
\* calendar month with those of the month before it: with no previous total
\* it is 100 for a positive current total and 0 otherwise, and with a previous
\* total it is (current - previous) / previous * 100 up to binary64 rounding;
\* previous 1000 and current 1500 give 50.
MoMChangeRule ==
    momChange # Null =>
        LET current  == MonthTotal(expenses, CurrentMonth)
            previous == MonthTotal(expenses, CurrentMonth - 1)
            change   == momChange.value
        IN  /\ (previous = 0 /\ current > 0) => change = DOfInt(100)
            /\ (previous = 0 /\ current <= 0) => change = DZero
            /\ previous # 0 =>
                   Near(XMul(change, DOfInt(previous)), DOfInt(100 * (current - previous)),
                        XMul(RoundingTolerance, DOfInt(previous)))
            /\ (previous = 1000 /\ current = 1500) => change = DOfInt(50)

\* 1000 in the last millisecond of December and 1500 in the first of January,
\* read in January: 50
MoMChangeWitness ==
    /\ momChange # Null
    /\ getYear(now) = 2024 /\ getMonth(now) = 0
    /\ MonthTotal(expenses, CurrentMonth - 1) = 1000
    /\ MonthTotal(expenses, CurrentMonth) = 1500
    /\ \E i \in 1..Len(expenses) : toDate(expenses[i].date) = DateTime(2023, 11, 31, MsPerDay - 1)
    /\ \E i \in 1..Len(expenses) : toDate(expenses[i].date) = DateTime(2024, 0, 1, 0)
    /\ momChange.value = DOfInt(50)

\* C14: the income-versus-expenses list has exactly 6 entries, one for each of
\* the 6 consecutive calendar months that end with the current month, in
\* chronological order; income and expenses of an entry are the sums of the
\* records dated in its month, 0 without records, so that records dated
\* outside the window change nothing.
SixMonthWindow ==
    incomeVsExpenses # Null =>
        LET entries == incomeVsExpenses.entries
        IN  /\ Len(entries) = 6
            /\ \A k \in 1..6 :
                   LET m == CurrentMonth - (6 - k)
                   IN  /\ entries[k].period =
                              << MonthNames[(m % 12) + 1], " " >> \o NumberToString(m \div 12)
                       /\ entries[k].income = MonthTotal(income, m)
                       /\ entries[k].expenses = MonthTotal(expenses, m)

\* read in January 2024: an expense of July 2023 and an income of July 2023
\* are left out, an income of the first millisecond of August 2023 is in the
\* first entry, and the months without records are filled with zeros
SixMonthWindowWitness ==
    /\ incomeVsExpenses # Null
    /\ getYear(now) = 2024 /\ getMonth(now) = 0
    /\ \E i \in 1..Len(expenses) : getMonth(toDate(expenses[i].date)) = 6
    /\ \E i \in 1..Len(expenses) : getMonth(toDate(expenses[i].date)) = 0
    /\ Len(income) = 3
    /\ incomeVsExpenses.entries[1].period = <<"Aug", " ", "2", "0", "2", "3">>
    /\ incomeVsExpenses.entries[1].income = 3000
    /\ incomeVsExpenses.entries[1].expenses = 0
    /\ incomeVsExpenses.entries[3].income = 0
    /\ incomeVsExpenses.entries[6].period = <<"Jan", " ", "2", "0", "2", "4">>
    /\ incomeVsExpenses.entries[6].expenses > 0
    /\ incomeVsExpenses.entries[6].income = 0
    /\ Total(income) = 11000

\* C15: the weeks of the weekly trend are numbered 1, 2, ..., N in order, and
\* the running average of week i is (the sum of the amounts of weeks 1..i) / i
\* up to binary64 rounding; the running average of week 1 is its amount.
WeeklyRunningAverage ==
    weeklyTrend # Null =>
        LET entries == weeklyTrend.entries
        IN  /\ Len(entries) >= 1
            /\ entries[1].average = DOfInt(entries[1].amount)
            /\ \A i \in 1..Len(entries) :
                   /\ entries[i].week = i
                   /\ Near(XMul(entries[i].average, DOfInt(i)),
                           DOfInt(TotalUpTo(entries, i)),
                           XMul(RoundingTolerance, DOfInt(i)))

\* January 2024: five weeks, 1500 in the first and 5000 in the third, so the
\* averages are 1500, 750 and 6500 / 3
WeeklyRunningAverageWitness ==
    /\ weeklyTrend # Null
    /\ Len(weeklyTrend.entries) = 5
    /\ weeklyTrend.entries[1].amount = 1500
    /\ weeklyTrend.entries[2].amount = 0
    /\ weeklyTrend.entries[3].amount = 5000
    /\ weeklyTrend.entries[2].average = DOfInt(750)
    /\ weeklyTrend.entries[3].average = DDiv(DOfInt(6500), DOfInt(3))
    /\ weeklyTrend.entries[5].week = 5

\* C16: the daily spending has exactly one entry per calendar day from the
\* day of startDate to the day of endDate, in ascending order; its amount is
\* the sum of the expenses of that day, and its intensity is 0 for amount 0,
\* 1 below 5000, 2 from 5000 and below 10000, 3 from 10000 and below 20000,
\* and 4 from 20000.
DailySpendingRule ==
    dailySpending # Null =>
        LET entries == dailySpending.entries
        IN  /\ Len(entries) = dateRange.end.day - dateRange.start.day + 1
            /\ \A i \in 1..Len(entries) :
                   LET amount == TotalWhere(expenses,
                                     LAMBDA e : e.date.day = dateRange.start.day + i - 1)
                   IN  /\ entries[i].date.day = dateRange.start.day + i - 1
                       /\ entries[i].amount = amount
                       /\ entries[i].intensity =
                              IF amount = 0 THEN 0
                              ELSE IF amount < 5000 THEN 1
                              ELSE IF amount < 10000 THEN 2
                              ELSE IF amount < 20000 THEN 3
                              ELSE 4

\* January 2024: 31 entries, 1500 on the 1st (intensity 1) and twice 5000 on
\* the 15th, one of them at midnight (10000, intensity 3)
DailySpendingWitness ==
    /\ dailySpending # Null
    /\ Len(dailySpending.entries) = 31
    /\ Len(expenses) = 2
    /\ dailySpending.entries[15].amount = 10000
    /\ dailySpending.entries[15].intensity = 3
    /\ dailySpending.entries[14].intensity = 0
    /\ getDate(dailySpending.entries[31].date) = 31

\* the month of an entry of the monthly totals, counted in months
EntryMonth(t) == 12 * t.year + MonthIndexOf(t.month)

\* C17: the monthly totals have exactly one entry per calendar month with at
\* least one expense, with the sum and the number of that month's expenses,
\* in strictly ascending order of (year, month index), whatever the order of
\* the expenses.
MonthlyTotalsRule ==
    monthlyTotals # Null =>
        LET entries == monthlyTotals.entries
        IN  /\ \A i \in 1..Len(entries) : MonthIndexOf(entries[i].month) >= 0
            /\ \A i, j \in 1..Len(entries) :
                   i < j => EntryMonth(entries[i]) < EntryMonth(entries[j])
            /\ {EntryMonth(entries[i]) : i \in 1..Len(entries)}
                   = {MonthOf(expenses[k]) : k \in 1..Len(expenses)}
            /\ \A i \in 1..Len(entries) :
                   LET InMonth(e) == MonthOf(e) = EntryMonth(entries[i])
                   IN  /\ entries[i].total = TotalWhere(expenses, InMonth)
                       /\ entries[i].count = Len(SelectSeq(expenses, InMonth))

\* an expense of February 2024 recorded before one of January 2024: the
\* entries are January, then February
MonthlyTotalsWitness ==
    /\ monthlyTotals # Null
    /\ Len(expenses) = 2
    /\ getMonth(toDate(expenses[1].date)) = 1
    /\ getMonth(toDate(expenses[2].date)) = 0
    /\ getYear(toDate(expenses[2].date)) = 2024
    /\ Len(monthlyTotals.entries) = 2
    /\ monthlyTotals.entries[1].month = "Jan"
    /\ monthlyTotals.entries[2].month = "Feb"
    /\ monthlyTotals.entries[2].total = 5000
RECURSIVE IsSubsequence(_, _)
IsSubsequence(a, b) ==
    IF a = << >> THEN TRUE
    ELSE IF b = << >> THEN FALSE
    ELSE IF a[1] = b[1] THEN IsSubsequence(Tail(a), Tail(b))
    ELSE IsSubsequence(a, Tail(b))

\* the number of elements of list that equal x
Occurrences(list, x) == Len(SelectSeq(list, LAMBDA y : y = x))

\* C19: the active list holds all built-in categories and exactly the custom
\* categories whose isDeleted flag is not set, is sorted by order ascending,
\* and is the list including the deleted ones without the soft-deleted custom
\* categories.
ActiveListRule ==
    LET active  == allCategories
        all     == allCategoriesIncludingDeleted
        live    == SelectSeq(customCategories, LAMBDA c : ~c.isDeleted)
        deleted == SelectSeq(customCategories, LAMBDA c : c.isDeleted)
    IN  /\ \A i \in 1..Len(CATEGORIES) :
               Occurrences(active, UnifiedCategory(CATEGORIES[i], FALSE)) = 1
        /\ \A i \in 1..Len(active) :
               active[i].isCustom =>
                   Occurrences(active, active[i])
                       = Occurrences([k \in 1..Len(live) |-> UnifiedCategory(live[k], TRUE)],
                                     active[i])
        /\ Len(active) = Len(CATEGORIES) + Len(live)
        /\ \A i, j \in 1..Len(active) : i < j => active[i].order <= active[j].order
        /\ IsSubsequence(active, all)
        /\ Len(all) = Len(active) + Len(deleted)
        /\ \A i \in 1..Len(deleted) :
               Occurrences(all, UnifiedCategory(deleted[i], TRUE))
                   > Occurrences(active, UnifiedCategory(deleted[i], TRUE))

\* two custom categories, the first one soft-deleted: 12 active categories,
\* the last one custom, and 13 including the deleted one
ActiveListWitness ==
    /\ Len(customCategories) = 2
    /\ customCategories[1].isDeleted
    /\ ~customCategories[2].isDeleted
    /\ Len(allCategories) = 12
    /\ allCategories[12].id = customCategories[2].id
    /\ allCategories[1].id = "rent"
    /\ Len(allCategoriesIncludingDeleted) = 13
    /\ allCategoriesIncludingDeleted[12].id = customCategories[1].id

\* C20: for a soft-deleted custom category the value getCategoryById returns
\* shows that it is deleted: it differs from the value returned for the same
\* category when it is not deleted.
DeletedStatusVisible ==
    \A i \in 1..Len(customCategories) :
        customCategories[i].isDeleted =>
            getCategoryById(customCategories[i].id)
                # getCategoryByIdIn([customCategories EXCEPT ![i].isDeleted = FALSE],
                                    customCategories[i].id)

\* C21: after any sequence of addCustomCategory calls, two of them at the same
\* clock reading included, the ids of the built-in catalog and of the stored
\* custom categories are pairwise distinct.
CategoryIdsDistinct ==
    LET all == defaultCategoriesAsUnified \o storedCategories
    IN  \A i, j \in 1..Len(all) : all[i].id = all[j].id => i = j

\* C22: getGoals returns the default allocations when no saveGoals has
\* happened since the start or since the last resetGoals, and otherwise exactly
\* the list passed to the latest saveGoals, with nothing of an earlier state
\* merged in.
GetGoalsReturnsLatest ==
    (lastCall # Null /\ lastCall.name = "getGoals") =>
        lastCall.returned.allocations =
            IF savedAllocations = Null THEN DEFAULT_GOAL_ALLOCATIONS
            ELSE savedAllocations.value

\* getGoals has returned a saved list that lacks categories of the defaults
\* and of the list saved before it
GetGoalsReturnsLatestWitness ==
    /\ lastCall # Null
    /\ lastCall.name = "getGoals"
    /\ savedAllocations # Null
    /\ lastCall.returned.allocations = << Allocation("needs", 60), Allocation("wants", 40) >>
    /\ calls >= 3

\* C30: updateAllocation(category, p) changes only the targetPercentage of the
\* allocation with that category: the stored list keeps its length and order,
\* every other allocation has the targetPercentage stored immediately before
\* the write and monthlyIncomeTarget is unchanged, also when another call took
\* effect between its read and its write.
UpdateAllocationChangesOne ==
    (lastCall # Null /\ lastCall.name = "updateAllocation") =>
        LET before == lastCall.before.allocations
            after  == storedGoals.allocations
        IN  /\ Len(after) = Len(before)
            /\ \A i \in 1..Len(before) :
                   /\ after[i].category = before[i].category
                   /\ after[i].targetPercentage =
                          IF before[i].category = lastCall.category
                          THEN lastCall.targetPercentage
                          ELSE before[i].targetPercentage
            /\ storedGoals.monthlyIncomeTarget = lastCall.before.monthlyIncomeTarget

\* the reference date one period earlier: a week, a month, three months or a
\* year, and a month for any other period
ShiftedBack(timePeriod, referenceDate) ==
    CASE timePeriod = "week" -> subWeeks(referenceDate, 1)
      [] timePeriod = "quarter" -> subMonths(referenceDate, 3)
      [] timePeriod = "year" -> subYears(referenceDate, 1)
      [] OTHER -> subMonths(referenceDate, 1)

\* C23: for every period and reference date getPreviousPeriod(period, ref) is
\* getDateRange(period, ref shifted back by one period): one week, one month,
\* three months for a quarter (a trailing window of three calendar months) and
\* one year; an unknown period such as 'custom' is treated as month by both.
PreviousPeriodIsShiftedRange ==
    previousPeriod # Null =>
        /\ previousPeriod = getDateRange(selectedPeriod.value, ShiftedBack(selectedPeriod.value, now))
        /\ selectedPeriod.value = "custom" =>
               /\ previousPeriod = getPreviousPeriod("month", now)
               /\ getDateRange("custom", now) = getDateRange("month", now)
        /\ selectedPeriod.value = "quarter" =>
               /\ previousPeriod.end = endOfMonth(subMonths(now, 3))
               /\ previousPeriod.start = startOfMonth(subMonths(previousPeriod.end, 2))

\* the previous quarter of 31 May 2024: December 2023 to February 2024, both
\* shifts ending on a shorter month
PreviousPeriodWitness ==
    /\ previousPeriod # Null
    /\ selectedPeriod.value = "quarter"
    /\ now = DateTime(2024, 4, 31, TimeOfDay(15, 45))
    /\ previousPeriod = DateRange(NewDate(2023, 11, 1), DateTime(2024, 1, 29, MsPerDay - 1))

\* C24: every aggregation function is pure: two calls with the same input
\* lists and parameters return equal results (the lists and records are values
\* here, which no call changes).
AggregationsRepeatable ==
    recomputed # Null =>
        /\ recomputed.totalExpenses = analytics.totalExpenses
        /\ recomputed.totalIncome = analytics.totalIncome
        /\ recomputed.savingsRate = savingsRate.value
        /\ recomputed.categoryBreakdown = categoryBreakdown.entries
        /\ recomputed.monthlyTotals = monthlyTotals.entries
        /\ recomputed.weeklyTrend = weeklyTrend.entries
        /\ recomputed.dailySpending = dailySpending.entries
        /\ recomputed.incomeVsExpenses = incomeVsExpenses.entries
        /\ recomputed.momChange = momChange.value

\* the actualAmount of the progress record of a goal category
ActualAmountOf(progress, goalCategory) ==
    progress[CHOOSE i \in 1..Len(progress) : progress[i].category = goalCategory].actualAmount

\* the goal category occurs once in the allocations
OnceIn(allocations, goalCategory) ==
    Cardinality({i \in 1..Len(allocations) : allocations[i].category = goalCategory}) = 1

\* C25: with needs, wants and savings once each in the allocations, the
\* actual amounts of needs and wants add up to the total of all expenses, and
\* with that of savings to the larger of total income and total expenses.
ActualAmountsAddUp ==
    (Computed /\ \A c \in {"needs", "wants", "savings"} : OnceIn(goals, c)) =>
        LET needs   == ActualAmountOf(analytics.progress, "needs")
            wants   == ActualAmountOf(analytics.progress, "wants")
            savings == ActualAmountOf(analytics.progress, "savings")
        IN  /\ needs + wants = Total(expenses)
            /\ needs + wants + savings = MaxOf(Total(income), Total(expenses))

\* expenses of a listed needs category and of a category no list names, below
\* the income
ActualAmountsAddUpWitness ==
    /\ Computed
    /\ goals = DEFAULT_GOAL_ALLOCATIONS
    /\ expenses = << Expense("fuel", 820), Expense("groceries", 100) >>
    /\ Total(income) = 1000
    /\ ActualAmountOf(analytics.progress, "wants") = 820
    /\ ActualAmountOf(analytics.progress, "savings") = 80

\* C26: with the default allocations the overall score never exceeds 60: the
\* investments and emergency_fund records always have actualPercentage 0 and
\* so a category score of 0.
DefaultScoreAtMost60 ==
    (Computed /\ goals = DEFAULT_GOAL_ALLOCATIONS) =>
        /\ analytics.overallScore <= 60
        /\ \A i \in 1..Len(analytics.progress) :
               LET p == analytics.progress[i]
               IN  p.category \in {"investments", "emergency_fund"} =>
                       /\ DCmp(p.actualPercentage, DZero) = 0
                       /\ DCmp(CategoryScore(p), DZero) = 0

\* an income without expenses: needs, wants and savings score 100 each and
\* the overall score is 60
DefaultScoreAtMost60Witness ==
    /\ Computed
    /\ goals = DEFAULT_GOAL_ALLOCATIONS
    /\ Total(income) = 200000
    /\ expenses = <<>>
    /\ analytics.overallScore = 60

\* C27: every accumulation record whose targetAmount is 0, that is whose
\* targetPercentage is 0 or whenever totalIncome is 0, is 'ahead', also with
\* actualAmount 0, and generateInsights emits a 'success' insight for it.
ZeroTargetIsAhead ==
    Computed =>
        \A i \in 1..Len(analytics.progress) :
            LET p == analytics.progress[i]
            IN  (p.category \in Accumulation
                     /\ (p.targetPercentage = 0 \/ analytics.totalIncome = 0)) =>
                    /\ DCmp(p.targetAmount, DZero) = 0
                    /\ p.status = "ahead"
                    /\ \E k \in 1..Len(analytics.insights) :
                           /\ analytics.insights[k].type = "success"
                           /\ analytics.insights[k].category = p.category

\* a positive income and a debt_repayment target of 0%: nothing was repaid,
\* and the record is ahead with a success insight
ZeroTargetIsAheadWitness ==
    /\ Computed
    /\ analytics.totalIncome > 0
    /\ \E i \in 1..Len(analytics.progress) :
           LET p == analytics.progress[i]
           IN  /\ p.category = "debt_repayment"
               /\ p.targetPercentage = 0
               /\ p.actualAmount = 0
               /\ p.status = "ahead"
               /\ \E k \in 1..Len(analytics.insights) :
                      /\ analytics.insights[k].type = "success"
                      /\ analytics.insights[k].category = "debt_repayment"

\* a spend-down record without income whose bucket has spending is 'behind'
\* with actualPercentage 0 and a category score of 100
BehindWithFullScore(p) ==
    (analytics.totalIncome = 0 /\ p.actualAmount > 0) =>
        /\ p.status = "behind"
        /\ DCmp(p.actualPercentage, DZero) = 0
        /\ DCmp(CategoryScore(p), DOfInt(100)) = 0

\* C28, as claimed: without income a spend-down record with spending is
\* 'behind' with actualPercentage 0 and a category score of 100; with income a
\* spend-down record is 'behind' exactly when its category score is below 100.
BehindIffScoreBelow100 ==
    Computed =>
        \A i \in 1..Len(analytics.progress) :
            LET p == analytics.progress[i]
            IN  p.category \in SpendDown =>
                    /\ BehindWithFullScore(p)
                    /\ analytics.totalIncome > 0 =>
                           ((p.status = "behind") <=> DLt(CategoryScore(p), DOfInt(100)))

\* C28, amended: with income a 'behind' spend-down record has a category
\* score below 100, and a record with a score below 100 is 'behind' or has
\* spending of exactly its target amount.
BehindImpliesScoreBelow100 ==
    Computed =>
        \A i \in 1..Len(analytics.progress) :
            LET p == analytics.progress[i]
            IN  p.category \in SpendDown =>
                    /\ BehindWithFullScore(p)
                    /\ analytics.totalIncome > 0 =>
                           /\ p.status = "behind" => DLt(CategoryScore(p), DOfInt(100))
                           /\ DLt(CategoryScore(p), DOfInt(100)) =>
                                  \/ p.status = "behind"
                                  \/ 100 * p.actualAmount = Target100(p)

\* no income, rent of 55 against a needs target of 55%: 'behind' with a score
\* of 100
BehindWithFullScoreWitness ==
    /\ Computed
    /\ analytics.totalIncome = 0
    /\ \E i \in 1..Len(analytics.progress) :
           LET p == analytics.progress[i]
           IN  /\ p.category = "needs"
               /\ p.targetPercentage = 55
               /\ p.actualAmount = 55
               /\ p.status = "behind"
               /\ DCmp(CategoryScore(p), DOfInt(100)) = 0

\* the expense is dated within [from, to]
DatedBetween(expense, from, to) ==
    DateGe(toDate(expense.date), from) /\ DateLe(toDate(expense.date), to)

\* the weeks of the trend that count the expense
WeeksCounting(entries, expense) ==
    {i \in 1..Len(entries) : DatedBetween(expense, entries[i].weekStart, entries[i].weekEnd)}

\* C29: the weeks of the weekly trend start on Sundays, follow one another
\* without gap or overlap, and count every expense at most once and every
\* expense dated within [startDate, endDate] exactly once; the week amounts add
\* up to the total of the expenses dated from the start of the first week to
\* the end of the last, those before startDate or after endDate included.
WeeksPartitionTheRange ==
    weeklyTrend # Null =>
        LET entries == weeklyTrend.entries
            N       == Len(entries)
        IN  /\ N >= 1
            /\ \A i \in 1..N :
                   /\ getDay(entries[i].weekStart) = 0
                   /\ entries[i].weekStart.ms = 0
                   /\ entries[i].weekEnd = Date(entries[i].weekStart.day + 6, MsPerDay - 1)
                   /\ i < N => entries[i + 1].weekStart = Date(entries[i].weekEnd.day + 1, 0)
                   /\ entries[i].amount =
                          Total(SelectSeq(expenses, LAMBDA e :
                              DatedBetween(e, entries[i].weekStart, entries[i].weekEnd)))
            /\ DateLe(entries[1].weekStart, dateRange.start)
            /\ DateGe(entries[N].weekEnd, dateRange.end)
            /\ \A k \in 1..Len(expenses) :
                   /\ Cardinality(WeeksCounting(entries, expenses[k])) <= 1
                   /\ DatedBetween(expenses[k], dateRange.start, dateRange.end) =>
                          Cardinality(WeeksCounting(entries, expenses[k])) = 1
            /\ TotalUpTo(entries, N) =
                   Total(SelectSeq(expenses, LAMBDA e :
                       DatedBetween(e, entries[1].weekStart, entries[N].weekEnd)))

\* January 2024, which starts on a Monday: the expense of Sunday 31 December
\* 2023, dated before startDate, is counted in the first week, and the one of
\* 15 January in the third
WeeksPartitionWitness ==
    /\ weeklyTrend # Null
    /\ dateRange.start = NewDate(2024, 0, 1)
    /\ Len(expenses) = 2
    /\ toDate(expenses[1].date) = DateTime(2023, 11, 31, MsPerDay - 1)
    /\ toDate(expenses[2].date) = DateTime(2024, 0, 15, 0)
    /\ ~DatedBetween(expenses[1], dateRange.start, dateRange.end)
    /\ weeklyTrend.entries[1].amount = 1000
    /\ weeklyTrend.entries[3].amount = 5000

====
